---- MODULE Spec2Model ----
(***************************************************************************)
(* A model of the opencode-synced synchronisation core: the lock manager   *)
(* (src/src/sync/utils.ts), the override merge engine                      *)
(* (src/src/sync/config.ts), the sync plan builder (src/src/sync/utils.ts) *)
(* and the orchestrator flows (src/src/sync/service.ts, repo.ts).          *)
(*                                                                         *)
(* Each subsystem has its own specification over its own group of          *)
(* variables; the variables of the other groups stay at their initial      *)
(* value.                                                                  *)
(***************************************************************************)
EXTENDS Integers, Sequences, FiniteSets, TLC

VARIABLES
    \* ---- lock manager -------------------------------------------------
    lockFile,         \* the file at lockPath
    pc,               \* per process: position inside tryAcquireSyncLock / release
    attempt,          \* per process: the loop variable `attempt`
    existing,         \* per process: the local `existing` (readLockInfo result)
    shouldBreakLock,  \* per process: the local `shouldBreakLock`
    opens,            \* per process: open(lockPath, 'wx') calls of this attempt
    concurrent,       \* per process: another attempt overlapped this one
    wrapper,          \* the caller's withSyncLock: runExclusive or skipIfBusy
    bodyRan,          \* the caller's withSyncLock: fn() was called
    callResult,       \* the caller's withSyncLock: how the call ended
    \* ---- override merge engine ----------------------------------------
    mBase,            \* the mirror's copy of a config file (base)
    mOverrides,       \* the overrides document
    mMerged,          \* deepMerge(base, overrides): the local config
    mStripped,        \* stripOverrides(merged, overrides, base)
    mpc,              \* "input", "merged" or "stripped"
    \* ---- sync plan builder and local -> mirror pass --------------------
    pConfig,          \* the NormalizedSyncConfig given to buildSyncPlan
    pPlatform,        \* the platform given to buildSyncPlan
    pPlan,            \* the SyncPlan it returned
    pCopied,          \* local files whose content a pass wrote into the mirror
    ppc,              \* "config", "planned" or "copied"
    \* ---- orchestrator flows ---------------------------------------------
    opKind,           \* the operation running (or the last one run)
    fpc,              \* its position; "idle" when none runs
    opConfig,         \* the configuration the operation works with
    created,          \* init: the local `created`
    secretsFailure,   \* push: the local `secretsFailure` is set
    lockHeld,         \* this process holds the sync lock
    effects,          \* what the operation has done so far
    outcome,          \* how it ended: "ok", "warning", "info", "error", "skipped"
    resultText,       \* which message it returned, raised or showed
    clock,            \* number of operations started; new Date() of the current one
    startState,       \* SyncState when the operation started
    startRepo,        \* mirror working copy when the operation started
    configFile,       \* the persisted sync configuration file
    syncState,        \* the persisted SyncState file
    localSecretsHash, \* hash of the local auth.json and mcp-auth.json
    unapplied,        \* the mirror holds fast-forwarded commits not yet applied to local
    remotePrivate,    \* the remote repository is private
    cloned,           \* the mirror working copy exists
    dirty,            \* the mirror has uncommitted changes
    ahead,            \* commits of the local branch not on origin/<branch>
    behind,           \* commits of origin/<branch> not on the local branch
    remoteNew,        \* commits on the remote not fetched yet
    authTracked,      \* data/auth.json or data/mcp-auth.json is tracked in the mirror
    \* ---- secrets backend (1Password) -----------------------------------
    bOp,              \* the backend call running (or the last one run)
    bpc,              \* its position; "idle" when none runs
    bConfig,          \* the OnePasswordConfig: vault, authJson, mcpAuthJson
    bVault,           \* the vault: number of Document items per title
    bIndex,           \* the DocumentIndex listed at the start of the call
    bLocal,           \* per secret: the local file exists
    bTarget,          \* per secret: what the local file holds since the call began
    bTemp,            \* per secret: the download into the temporary path is complete
    bLog,             \* what the call did: files replaced, documents created, edited
    bLookup,          \* per secret: the lookup pullDocument/pushDocument made
    bError,           \* the error the call raised
    bChanges,         \* changes other machines made to the vault during the call
    \* ---- extra paths: manifest and mirror -> local application -----------
    xPaths,           \* the configured extra paths (extraSecretPaths), as written
    xRemoved,         \* allow-list paths the last edit of the configuration dropped
    xPlatform,        \* the platform of this machine
    xManifest,        \* the mirror's extra-manifest.json
    xMirror,          \* the copies present under the mirror's extra directory
    xApplied,         \* manifest entries the last mirror -> local pass copied
    xWritten,         \* local files the last mirror -> local pass wrote
    xpc,              \* the last step: "config", "written", "fetched", "applied"
    \* ---- config files through local -> mirror -> local --------------------
    cLocal,           \* the local config file (opencode.json)
    cRepo,            \* its copy in the mirror (config/opencode.json)
    cOverrides,       \* the loaded overrides file, null when there is none
    cOriginal,        \* the local config file before the two passes
    cpc,              \* "start", "inMirror", "done" (both passes), "applied"
    \* ---- resolve command ------------------------------------------------
    rspc,             \* position of the resolve command; "idle" when none runs
    rsCloned,         \* the mirror working copy exists
    rsModified,       \* the mirror has modified tracked files
    rsUntracked,      \* the mirror has untracked files
    rsAhead,          \* commits of the mirror not on the remote
    rsStart,          \* the mirror when the command started
    rsAi,             \* what the AI collaborator did when asked
    rsDecision,       \* the ResolutionDecision
    rsLog,            \* the git commands that changed the mirror
    rsResult,         \* what the command returned or raised
    \* ---- secrets hash: the secrets-pull and secrets-push commands --------
    hFiles,           \* the local auth.json and mcp-auth.json: absent or their content
    hState,           \* SyncState.lastSecretsHash
    hSynced,          \* hash of the files at the last backend pull or push that succeeded
    hRecorded,        \* that pull or push could compute the hash it recorded
    hHashed,          \* the last command could compute the hash
    hCalls,           \* backend calls of the last command, with how they ended
    hResult,          \* what the last command returned or raised
    hOps,             \* commands started
    hpc,              \* the command running; "idle" when none runs
    \* ---- commit-message generation -------------------------------------
    gpc,              \* position in generateCommitMessage; "returned" or "raised" at the end
    gDiff,            \* the diff summary
    gSession,         \* the AI session is open
    gAnswer,          \* what the AI collaborator answered to the prompt
    gCause,           \* why the fallback was taken, "none" when a message was generated
    gMessage,         \* the message returned
    \* ---- link command and the sync configuration file ---------------------
    kConfig,          \* the local sync configuration file (opencode-synced.jsonc)
    kMirror,          \* its copy in the mirror (config/opencode-synced.jsonc)
    kpc,              \* position of the link command
    \* ---- external calls of one backend pull or push -----------------------
    dOp,              \* "pull" or "push"
    dpc,              \* position of the call
    dDoc,             \* index in Secrets of the document being handled
    dIndex,           \* per secret: lookupDocument on the index listed at the start
    dLocal,           \* per secret: the local file exists
    dCalls,           \* op commands run so far
    dRelists,         \* per secret: listings made by lookupDocumentWithRetry
    \* ---- one plan through local -> mirror and mirror -> local -------------
    yKind,            \* the item beside the config file: file, authToken or extra path
    ySkipAuth,        \* options.skipAuthTokens of the local -> mirror pass
    yAllowed,         \* the extra path is configured on this machine
    yOverrides,       \* the overrides file
    yCfgLocal,        \* the config file, local
    yCfgRepo,         \* the config file, in the mirror
    yOtherLocal,      \* the other item, local
    yOtherRepo,       \* the other item, in the mirror
    yManifest,        \* the mirror's extra-manifest.json
    yPrev,            \* the files before the last pass
    ypc               \* the passes made so far

callVars == <<wrapper, bodyRan, callResult>>

lockVars == <<lockFile, pc, attempt, existing, shouldBreakLock, opens, concurrent,
              callVars>>

mergeVars == <<mBase, mOverrides, mMerged, mStripped, mpc>>

planVars == <<pConfig, pPlatform, pPlan, pCopied, ppc>>

opVars == <<opKind, opConfig, created, clock, startState, startRepo>>

repoVars == <<cloned, dirty, ahead, behind, remoteNew, authTracked>>

flowVars == <<opVars, repoVars, fpc, secretsFailure, lockHeld, effects, outcome,
              resultText, configFile, syncState, localSecretsHash, remotePrivate,
              unapplied>>

backendVars == <<bOp, bpc, bConfig, bVault, bIndex, bLocal, bTarget, bTemp, bLog,
                 bLookup, bError, bChanges>>

extraVars == <<xPaths, xRemoved, xPlatform, xManifest, xMirror, xApplied, xWritten,
               xpc>>

configVars == <<cLocal, cRepo, cOverrides, cOriginal, cpc>>

resolveVars == <<rspc, rsCloned, rsModified, rsUntracked, rsAhead, rsStart, rsAi,
                 rsDecision, rsLog, rsResult>>

hashVars == <<hFiles, hState, hSynced, hRecorded, hHashed, hCalls, hResult, hOps,
              hpc>>

commitVars == <<gpc, gDiff, gSession, gAnswer, gCause, gMessage>>

linkVars == <<kConfig, kMirror, kpc>>

callsVars == <<dOp, dpc, dDoc, dIndex, dLocal, dCalls, dRelists>>

applyVars == <<yKind, ySkipAuth, yAllowed, yOverrides, yCfgLocal, yCfgRepo,
              yOtherLocal, yOtherRepo, yManifest, yPrev, ypc>>

vars == <<lockVars, mergeVars, planVars, flowVars, backendVars, extraVars, configVars, resolveVars, hashVars, commitVars, linkVars, callsVars, applyVars>>

notLockVars == <<mergeVars, planVars, flowVars, backendVars, extraVars, configVars, resolveVars, hashVars, commitVars, linkVars, callsVars, applyVars>>

notMergeVars == <<lockVars, planVars, flowVars, backendVars, extraVars, configVars, resolveVars, hashVars, commitVars, linkVars, callsVars, applyVars>>

notPlanVars == <<lockVars, mergeVars, flowVars, backendVars, extraVars, configVars, resolveVars, hashVars, commitVars, linkVars, callsVars, applyVars>>

notFlowVars == <<lockVars, mergeVars, planVars, backendVars, extraVars, configVars, resolveVars, hashVars, commitVars, linkVars, callsVars, applyVars>>

notApplyVars == <<lockVars, mergeVars, planVars, flowVars, backendVars, extraVars, configVars, resolveVars, hashVars, commitVars, linkVars, callsVars>>

notCallsVars == <<lockVars, mergeVars, planVars, flowVars, backendVars, extraVars, configVars, resolveVars, hashVars, commitVars, linkVars, applyVars>>

notLinkVars == <<lockVars, mergeVars, planVars, flowVars, backendVars, extraVars, configVars, resolveVars, hashVars, commitVars, callsVars, applyVars>>

notCommitVars == <<lockVars, mergeVars, planVars, flowVars, backendVars, extraVars, configVars, resolveVars, hashVars, linkVars, callsVars, applyVars>>

notHashVars == <<lockVars, mergeVars, planVars, flowVars, backendVars, extraVars, configVars, resolveVars, commitVars, linkVars, callsVars, applyVars>>

notResolveVars == <<lockVars, mergeVars, planVars, flowVars, backendVars, extraVars, configVars, hashVars, commitVars, linkVars, callsVars, applyVars>>

notConfigVars == <<lockVars, mergeVars, planVars, flowVars, backendVars, extraVars, resolveVars, hashVars, commitVars, linkVars, callsVars, applyVars>>

notExtraVars == <<lockVars, mergeVars, planVars, flowVars, backendVars, configVars, resolveVars, hashVars, commitVars, linkVars, callsVars, applyVars>>

notBackendVars == <<lockVars, mergeVars, planVars, flowVars, extraVars, configVars, resolveVars, hashVars, commitVars, linkVars, callsVars, applyVars>>

(***************************************************************************)
(* Lock manager                                                            *)
(***************************************************************************)

\* Number of processes that call tryAcquireSyncLock on the same lockPath.
NumProcs == 2

Procs == 1 .. NumProcs

\* The process whose withSyncLock calls are followed from the service
\* operation that makes them to their result.  The other processes take and
\* release the lock through the same code.
Caller == 1

\* process.pid of process p is p.  Pids recorded in a lock file left behind
\* by earlier runs: a process of another program that is alive, a process
\* that no longer exists, and values no process can have.
ForeignLivePid == NumProcs + 1
DeadPid == NumProcs + 2
InvalidPids == {0, -1}

LivePids == Procs \cup {ForeignLivePid}
RecordedPids == LivePids \cup {DeadPid} \cup InvalidPids

\* The file at lockPath.  creator is the process whose open(..., 'wx')
\* created it (0: left behind by an earlier run); content is "empty" between
\* the create and the write, "info" for a serialised SyncLockInfo and
\* "garbage" for anything readLockInfo rejects.
NoFile == [exists |-> FALSE, creator |-> 0, content |-> "none", pid |-> 0]
FileOf(c, k, n) == [exists |-> TRUE, creator |-> c, content |-> k, pid |-> n]

LeftoverFiles ==
    {FileOf(0, "info", n) : n \in {ForeignLivePid, DeadPid} \cup InvalidPids}
        \cup {FileOf(0, "empty", 0), FileOf(0, "garbage", 0)}

NullInfo == [valid |-> FALSE, pid |-> 0]
InfoOf(n) == [valid |-> TRUE, pid |-> n]

\* process.kill(pid, 0): succeeds or fails with EPERM for a process that
\* exists, fails with ESRCH for one that does not.
KillProbe(pid) == IF pid \in LivePids THEN "ok" ELSE "ESRCH"

\* isProcessAlive with the ESRCH case lost: any positive pid counts as alive.
isProcessAliveIgnoringEsrch(pid) == pid > 0

isProcessAlive(pid) ==
    IF pid <= 0 THEN FALSE
    ELSE KillProbe(pid) # "ESRCH"

\* readFile + JSON.parse + the three typeof checks; every failure is null.
readLockInfo(f) ==
    IF ~f.exists THEN NullInfo
    ELSE IF f.content # "info" THEN NullInfo
    ELSE InfoOf(f.pid)

\* The service operations that take the sync lock, and the wrapper each one
\* is written with.
ForegroundCommands ==
    {"init", "link", "pull", "push", "secretsPull", "secretsPush",
     "secretsStatus", "enableSecrets", "resolve"}

Commands == ForegroundCommands \cup {"startupSync"}

WrapperOf(command) ==
    IF command = "startupSync" THEN "skipIfBusy" ELSE "runExclusive"

Wrappers == {WrapperOf(command) : command \in Commands}

\* onBusy: runExclusive throws a SyncCommandError made from the owner's
\* LockInfo, skipIfBusy logs and returns.
onBusy(w) == IF w = "runExclusive" THEN "LockBusyError" ELSE "skipped"

\* rm that leaves the file where it is.
rmNothing(f) == f

\* rm(lockPath, { force: true })
rm(f) == NoFile

\* A break decision that ignores who owns the lock.
BreakAlways(att, info) == att = 0

InAttempt(p) == pc[p] \in {"open", "write", "read", "probe", "rm"}

\* withSyncLock calls tryAcquireSyncLock: mkdir, ourInfo, attempt = 0.
tryAcquireSyncLock(p) ==
    /\ pc[p] = "idle"
    /\ IF p = Caller
         THEN /\ wrapper' \in Wrappers
              /\ bodyRan' = FALSE
              /\ callResult' = "none"
         ELSE UNCHANGED callVars
    /\ pc' = [pc EXCEPT ![p] = "open"]
    /\ attempt' = [attempt EXCEPT ![p] = 0]
    /\ existing' = [existing EXCEPT ![p] = NullInfo]
    /\ shouldBreakLock' = [shouldBreakLock EXCEPT ![p] = FALSE]
    /\ opens' = [opens EXCEPT ![p] = 0]
    /\ concurrent' = [q \in Procs |->
                        IF q = p THEN \E r \in Procs \ {p} : InAttempt(r)
                        ELSE IF InAttempt(q) THEN TRUE
                        ELSE concurrent[q]]
    /\ UNCHANGED <<lockFile, notLockVars>>

\* open(lockPath, 'wx'): creates the file, or fails with EEXIST.
OpenExclusive(p) ==
    /\ pc[p] = "open"
    /\ opens' = [opens EXCEPT ![p] = @ + 1]
    /\ IF lockFile.exists
         THEN /\ pc' = [pc EXCEPT ![p] = "read"]
              /\ UNCHANGED lockFile
         ELSE /\ lockFile' = FileOf(p, "empty", 0)
              /\ pc' = [pc EXCEPT ![p] = "write"]
    /\ UNCHANGED <<attempt, existing, shouldBreakLock, concurrent, callVars, notLockVars>>

\* handle.writeFile(ourInfo): writes through the handle, so it reaches the
\* file at lockPath only while that is still the file this process created.
\* The call returns { acquired: true }.
WriteOurInfo(p) ==
    /\ pc[p] = "write"
    /\ lockFile' = IF lockFile.exists /\ lockFile.creator = p
                     THEN FileOf(p, "info", p)
                     ELSE lockFile
    /\ pc' = [pc EXCEPT ![p] = "held"]
    /\ UNCHANGED <<attempt, existing, shouldBreakLock, opens, concurrent, callVars, notLockVars>>

\* existing = await readLockInfo(lockPath)
ReadExisting(p) ==
    /\ pc[p] = "read"
    /\ existing' = [existing EXCEPT ![p] = readLockInfo(lockFile)]
    /\ pc' = [pc EXCEPT ![p] = "probe"]
    /\ UNCHANGED <<lockFile, attempt, shouldBreakLock, opens, concurrent, callVars, notLockVars>>

ShouldBreak(info) == ~info.valid \/ ~isProcessAlive(info.pid)

BreakDecision(att, info) == att = 0 /\ ShouldBreak(info)

\* shouldBreakLock = existing === null || !isProcessAlive(existing.pid);
\* then either go on to rm or return { acquired: false, info: existing }.
ProbeOwner(p) ==
    /\ pc[p] = "probe"
    /\ shouldBreakLock' = [shouldBreakLock EXCEPT ![p] = ShouldBreak(existing[p])]
    /\ pc' = [pc EXCEPT ![p] =
                IF BreakDecision(attempt[p], existing[p]) THEN "rm" ELSE "busy"]
    /\ UNCHANGED <<lockFile, attempt, existing, opens, concurrent, callVars, notLockVars>>

\* await rm(lockPath, { force: true }); continue
RemoveStale(p) ==
    /\ pc[p] = "rm"
    /\ lockFile' = rm(lockFile)
    /\ attempt' = [attempt EXCEPT ![p] = @ + 1]
    /\ pc' = [pc EXCEPT ![p] = "open"]
    /\ UNCHANGED <<existing, shouldBreakLock, opens, concurrent, callVars, notLockVars>>

\* withSyncLock consumes { acquired: false, info }:
\* return await options.onBusy(result.info), with info = existing.
BusyReturn(p) ==
    /\ pc[p] = "busy"
    /\ pc' = [pc EXCEPT ![p] = "idle"]
    /\ callResult' = IF p = Caller THEN onBusy(wrapper) ELSE callResult
    /\ UNCHANGED <<lockFile, attempt, existing, shouldBreakLock, opens, concurrent,
                   wrapper, bodyRan, notLockVars>>

\* withSyncLock: try { return await fn() }; the body returns or throws.
RunBody(p) ==
    /\ p = Caller
    /\ pc[p] = "held"
    /\ ~bodyRan
    /\ bodyRan' = TRUE
    /\ callResult' \in {"returned", "threw"}
    /\ UNCHANGED <<lockFile, pc, attempt, existing, shouldBreakLock, opens,
                   concurrent, wrapper, notLockVars>>

\* finally { await result.release() }: await handle.close()
ReleaseClose(p) ==
    /\ pc[p] = "held"
    /\ p = Caller => bodyRan
    /\ pc' = [pc EXCEPT ![p] = "releasing"]
    /\ UNCHANGED <<lockFile, attempt, existing, shouldBreakLock, opens, concurrent, callVars, notLockVars>>

\* release(): await rm(lockPath, { force: true })
ReleaseRm(p) ==
    /\ pc[p] = "releasing"
    /\ lockFile' = rm(lockFile)
    /\ pc' = [pc EXCEPT ![p] = "idle"]
    /\ UNCHANGED <<attempt, existing, shouldBreakLock, opens, concurrent, callVars, notLockVars>>

(***************************************************************************)
(* Override merge engine                                                   *)
(***************************************************************************)

\* JSON values.  A scalar is a number, string, boolean, null or an array
\* (isPlainObject rejects arrays, so an array behaves as one opaque value);
\* "zero" and "null" are the falsy ones.  Undefined is what reading a
\* missing key yields, and stands for a null baseConfig as well.
EmptyFields == [k \in {} |-> 0]
Scalar(s) == [t |-> "scalar", v |-> s, f |-> EmptyFields]
Obj(fields) == [t |-> "obj", v |-> "", f |-> fields]
Undefined == [t |-> "undefined", v |-> "", f |-> EmptyFields]

Scalars == {Scalar(s) : s \in {"zero", "one", "null"}}

\* Keys of a config document and of the objects nested in it.
Keys == {"a", "b"}
InnerKeys == {"x"}

ObjectsOver(keys, values) ==
    UNION {{Obj(fields) : fields \in [ks -> values]} : ks \in SUBSET keys}

InnerObjects == ObjectsOver(InnerKeys, Scalars)
Documents == ObjectsOver(Keys, Scalars \cup InnerObjects)

isPlainObject(x) == x.t = "obj"

\* The mutation of Truthy that takes an object for falsy.
TruthyScalarsOnly(x) == x.t = "scalar" /\ x.v \notin {"zero", "null"}

\* JavaScript truthiness of a value (`!baseValue`).
Truthy(x) ==
    \/ x.t = "obj"
    \/ x.t = "scalar" /\ x.v \notin {"zero", "null"}

\* obj[key]
Get(o, k) == IF k \in DOMAIN o.f THEN o.f[k] ELSE Undefined

ObjectKeys(o) == DOMAIN o.f

\* An object from a key -> value map in which Undefined marks a deleted
\* (or never set) key.
FromEntries(keys, val(_)) ==
    Obj([k \in {kk \in keys : val(kk) # Undefined} |-> val(k)])

RECURSIVE deepMerge(_, _)
deepMerge(base, override) ==
    IF ~isPlainObject(base) \/ ~isPlainObject(override)
    THEN IF override = Undefined THEN base ELSE override
    ELSE LET entry(k) ==
                 IF k \in ObjectKeys(override)
                 THEN LET value == override.f[k]
                          current == Get(base, k)
                      IN  IF isPlainObject(value) /\ isPlainObject(current)
                          THEN deepMerge(current, value)
                          ELSE value
                 ELSE base.f[k]
         IN  FromEntries(ObjectKeys(base) \cup ObjectKeys(override), entry)

RECURSIVE stripOverrides(_, _, _)
stripOverrides(localConfig, overrides, baseConfig) ==
    IF ~isPlainObject(localConfig) \/ ~isPlainObject(overrides)
    THEN localConfig
    ELSE LET entry(k) ==
                 IF k \notin ObjectKeys(overrides)
                 THEN Get(localConfig, k)
                 ELSE LET overrideValue == overrides.f[k]
                          baseValue == IF isPlainObject(baseConfig)
                                       THEN Get(baseConfig, k)
                                       ELSE Undefined
                          currentValue == Get(localConfig, k)
                      IN  IF isPlainObject(overrideValue) /\ isPlainObject(currentValue)
                          THEN LET stripped ==
                                       stripOverrides(currentValue, overrideValue,
                                           IF isPlainObject(baseValue)
                                           THEN baseValue ELSE Undefined)
                               IN  IF ObjectKeys(stripped) = {} /\ ~Truthy(baseValue)
                                   THEN Undefined
                                   ELSE stripped
                          ELSE baseValue
         IN  FromEntries(ObjectKeys(localConfig) \cup ObjectKeys(overrides), entry)

\* Mirror -> local: the overrides are applied on top of the mirror's copy.
ApplyOverrides ==
    /\ mpc = "input"
    /\ mMerged' = deepMerge(mBase, mOverrides)
    /\ mpc' = "merged"
    /\ UNCHANGED <<mBase, mOverrides, mStripped, notMergeVars>>

\* Local -> mirror: the overrides are stripped again, against the mirror's copy.
StripForRepo ==
    /\ mpc = "merged"
    /\ mStripped' = stripOverrides(mMerged, mOverrides, mBase)
    /\ mpc' = "stripped"
    /\ UNCHANGED <<mBase, mOverrides, mMerged, notMergeVars>>

(***************************************************************************)
(* Sync plan builder                                                       *)
(***************************************************************************)

\* A path is the sequence of its segments; an absolute path starts with the
\* root segment "/", a home-relative one with "~".
Root == <<"/">>

\* path.join
Join(dir, rest) == dir \o rest

HomeDir == Join(Root, <<"home", "u">>)
Cwd == HomeDir

\* resolveSyncLocations, for an environment that sets none of the overrides.
configRoot == Join(HomeDir, <<".config", "opencode">>)
dataRoot == Join(HomeDir, <<".local", "share", "opencode">>)
stateRoot == Join(HomeDir, <<".local", "state", "opencode">>)
syncConfigPath == Join(configRoot, <<"opencode-synced.jsonc">>)
repoRoot == Join(dataRoot, <<"opencode-synced", "repo">>)

authJsonPath == Join(dataRoot, <<"auth.json">>)
mcpAuthJsonPath == Join(dataRoot, <<"mcp-auth.json">>)

CONFIG_DIRS == <<"agent", "command", "mode", "tool", "themes", "plugin">>
SESSION_DIRS == << <<"storage", "session">>, <<"storage", "message">>,
                   <<"storage", "part">>, <<"storage", "session_diff">> >>
PROMPT_STASH_FILES == <<"prompt-stash.jsonl", "prompt-history.jsonl">>
MODEL_FAVORITES_FILE == "model.json"

Platforms == {"linux", "darwin", "win32"}

\* expandHome
expandHome(inputPath, homeDir) ==
    IF inputPath = <<>> THEN inputPath
    ELSE IF homeDir = <<>> THEN inputPath
    ELSE IF inputPath = <<"~">> THEN homeDir
    ELSE IF Head(inputPath) = "~" THEN Join(homeDir, Tail(inputPath))
    ELSE inputPath

\* path.resolve: a relative path is taken from the working directory, "."
\* segments are dropped and ".." segments remove the segment before them.
RECURSIVE Collapse(_, _)
Collapse(done, rest) ==
    IF rest = <<>> THEN done
    ELSE IF Head(rest) = "." THEN Collapse(done, Tail(rest))
    ELSE IF Head(rest) = ".."
         THEN Collapse(IF Len(done) > 1 THEN SubSeq(done, 1, Len(done) - 1) ELSE done,
                       Tail(rest))
    ELSE Collapse(Append(done, Head(rest)), Tail(rest))

pathResolve(p) ==
    IF p # <<>> /\ Head(p) = "/" THEN Collapse(Root, Tail(p))
    ELSE Collapse(Cwd, p)

\* String.prototype.toLowerCase on one segment; segments not listed have no
\* upper-case letter.
LowerSegment(s) ==
    CASE s = "AUTH.JSON" -> "auth.json"
      [] s = "Auth.json" -> "auth.json"
      [] s = "OpenCode" -> "opencode"
      [] OTHER -> s

toLowerCase(p) == [i \in 1 .. Len(p) |-> LowerSegment(p[i])]

normalizePath(inputPath, homeDir, platform) ==
    LET expanded == expandHome(inputPath, homeDir)
        resolved == pathResolve(expanded)
    IN  IF platform = "win32" THEN toLowerCase(resolved) ELSE resolved

\* isSamePath without the normalisation: the two strings are compared as given.
isSamePathVerbatim(left, right, homeDir, platform) == left = right

isSamePath(left, right, homeDir, platform) ==
    normalizePath(left, homeDir, platform) = normalizePath(right, homeDir, platform)

\* sanitize: every run of characters outside [a-zA-Z0-9._-] becomes "_",
\* leading "_" are removed.  The separators are the only such characters in
\* the paths used here, and all sanitized paths are shorter than 80.
RECURSIVE Underscored(_)
Underscored(p) ==
    IF p = <<>> THEN ""
    ELSE IF Head(p) = "/" THEN Underscored(Tail(p))
    ELSE IF Len(p) = 1 THEN Head(p)
    ELSE Head(p) \o "_" \o Underscored(Tail(p))

RECURSIVE Slashed(_)
Slashed(p) ==
    IF p = <<>> THEN ""
    ELSE IF Head(p) = "/" THEN Slashed(Tail(p))
    ELSE "/" \o Head(p) \o Slashed(Tail(p))

\* The first 8 hex digits of the SHA-1 of the path, kept symbolic: distinct
\* paths get distinct digests.
Sha1Hex8(p) == "sha1(" \o Slashed(p) \o ")"

encodeExtraPath(inputPath) == Underscored(inputPath) \o "-" \o Sha1Hex8(inputPath)

\* hasSecretsBackend(config): a secrets-backend descriptor is configured.
hasSecretsBackend(config) == config.secretsBackend # "none"

Item(localPath, repoPath, type, isSecret, isConfigFile, isAuthToken) ==
    [localPath |-> localPath, repoPath |-> repoPath, type |-> type,
     isSecret |-> isSecret, isConfigFile |-> isConfigFile,
     isAuthToken |-> isAuthToken]

\* An item field the object literal leaves out reads as undefined, which is
\* falsy wherever the field is used.
Missing == FALSE

buildExtraPathPlan(inputPaths, repoExtraDir, manifestPath, platform) ==
    LET allowlist == [i \in 1 .. Len(inputPaths) |->
                         normalizePath(inputPaths[i], HomeDir, platform)]
    IN  [allowlist |-> allowlist,
         manifestPath |-> manifestPath,
         entries |-> [i \in 1 .. Len(allowlist) |->
                         [sourcePath |-> allowlist[i],
                          repoPath |-> Join(repoExtraDir,
                                            <<encodeExtraPath(allowlist[i])>>)]]]

\* The mutation of EnabledExtraSecretPaths that ignores includeSecrets.
AllExtraSecretPaths(config) == config.extraSecretPaths

\* config.includeSecrets ? config.extraSecretPaths : []
EnabledExtraSecretPaths(config) ==
    IF config.includeSecrets THEN config.extraSecretPaths ELSE <<>>

buildSyncPlan(config, platform) ==
    LET repoConfigRoot == Join(repoRoot, <<"config">>)
        repoDataRoot == Join(repoRoot, <<"data">>)
        repoSecretsRoot == Join(repoRoot, <<"secrets">>)
        repoStateRoot == Join(repoRoot, <<"state">>)
        repoExtraDir == Join(repoSecretsRoot, <<"extra">>)
        manifestPath == Join(repoSecretsRoot, <<"extra-manifest.json">>)
        repoConfigExtraDir == Join(repoConfigRoot, <<"extra">>)
        configManifestPath == Join(repoConfigRoot, <<"extra-manifest.json">>)
        usingSecretsBackend == hasSecretsBackend(config)
        addFile(name, isSecret, isConfigFile) ==
            Item(Join(configRoot, <<name>>), Join(repoConfigRoot, <<name>>),
                 "file", isSecret, isConfigFile, FALSE)
        defaults ==
            << addFile("opencode.json", FALSE, TRUE),
               addFile("opencode.jsonc", FALSE, TRUE),
               addFile("AGENTS.md", FALSE, FALSE),
               addFile("opencode-synced.jsonc", FALSE, FALSE) >>
        configDirs ==
            [i \in 1 .. Len(CONFIG_DIRS) |->
                Item(Join(configRoot, <<CONFIG_DIRS[i]>>),
                     Join(repoConfigRoot, <<CONFIG_DIRS[i]>>),
                     "dir", FALSE, FALSE, FALSE)]
        favorites ==
            IF config.includeModelFavorites
            THEN << Item(Join(stateRoot, <<MODEL_FAVORITES_FILE>>),
                         Join(repoStateRoot, <<MODEL_FAVORITES_FILE>>),
                         "file", FALSE, FALSE, FALSE) >>
            ELSE <<>>
        authItems ==
            IF config.includeSecrets /\ ~usingSecretsBackend
            THEN << Item(authJsonPath, Join(repoDataRoot, <<"auth.json">>),
                         "file", TRUE, FALSE, Missing),
                    Item(mcpAuthJsonPath, Join(repoDataRoot, <<"mcp-auth.json">>),
                         "file", TRUE, FALSE, Missing) >>
            ELSE <<>>
        sessions ==
            IF config.includeSecrets /\ config.includeSessions
            THEN [i \in 1 .. Len(SESSION_DIRS) |->
                     Item(Join(dataRoot, SESSION_DIRS[i]),
                          Join(repoDataRoot, SESSION_DIRS[i]),
                          "dir", TRUE, FALSE, FALSE)]
            ELSE <<>>
        promptStash ==
            IF config.includeSecrets /\ config.includePromptStash
            THEN [i \in 1 .. Len(PROMPT_STASH_FILES) |->
                     Item(Join(stateRoot, <<PROMPT_STASH_FILES[i]>>),
                          Join(repoStateRoot, <<PROMPT_STASH_FILES[i]>>),
                          "file", TRUE, FALSE, FALSE)]
            ELSE <<>>
        extraSecretPaths == EnabledExtraSecretPaths(config)
        NotBackendOwned(entry) ==
            /\ ~isSamePath(entry, authJsonPath, HomeDir, platform)
            /\ ~isSamePath(entry, mcpAuthJsonPath, HomeDir, platform)
        filteredExtraSecrets ==
            IF usingSecretsBackend
            THEN SelectSeq(extraSecretPaths, NotBackendOwned)
            ELSE extraSecretPaths
        NotSyncConfig(entry) ==
            ~isSamePath(entry, syncConfigPath, HomeDir, platform)
        extraConfigPaths == SelectSeq(config.extraConfigPaths, NotSyncConfig)
    IN  [items |-> defaults \o configDirs \o favorites \o authItems
                      \o sessions \o promptStash,
         extraSecrets |-> buildExtraPathPlan(filteredExtraSecrets, repoExtraDir,
                                             manifestPath, platform),
         extraConfigs |-> buildExtraPathPlan(extraConfigPaths, repoConfigExtraDir,
                                             configManifestPath, platform),
         repoRoot |-> repoRoot,
         homeDir |-> HomeDir,
         platform |-> platform]

(***************************************************************************)
(* Local -> mirror pass over a plan                                        *)
(***************************************************************************)

\* The local files a pass can meet: the two backend-owned files, a private
\* key and a custom config file.
sshKeyPath == Join(HomeDir, <<".ssh", "id_rsa">>)
customConfigPath == Join(configRoot, <<"custom.json">>)

LocalFiles == {authJsonPath, mcpAuthJsonPath, sshKeyPath, customConfigPath,
               syncConfigPath}

\* The file-system object a path names: macOS and Windows volumes fold case,
\* Linux ones do not.
FileAt(p, platform) ==
    IF platform \in {"darwin", "win32"} THEN toLowerCase(p) ELSE p

IsUnder(f, dir) ==
    /\ Len(dir) < Len(f)
    /\ SubSeq(f, 1, Len(dir)) = dir

\* copyItem / copyFileWithMode / copyDirRecursive from sourcePath: the local
\* files whose content reaches the mirror (nothing if the path is missing).
FilesCopiedFrom(sourcePath, platform) ==
    LET target == FileAt(sourcePath, platform)
    IN  {f \in LocalFiles : f = target \/ IsUnder(f, target)}

Range(s) == {s[i] : i \in DOMAIN s}

\* syncLocalToRepo(plan, overrides, { skipAuthTokens }): the sources it copies.
syncLocalToRepo(plan, skipAuthTokens) ==
    LET copiedItems == {item \in Range(plan.items) :
                            ~(skipAuthTokens /\ item.isAuthToken)}
        sources == {item.localPath : item \in copiedItems}
                     \cup {e.sourcePath : e \in Range(plan.extraConfigs.entries)}
                     \cup {e.sourcePath : e \in Range(plan.extraSecrets.entries)}
    IN  UNION {FilesCopiedFrom(src, plan.platform) : src \in sources}

\* Paths a user can list in extraSecretPaths and extraConfigPaths.
ExtraSecretInputs ==
    { authJsonPath,
      <<"~", ".local", "share", "opencode", "auth.json">>,
      Join(dataRoot, <<"..", "opencode", "mcp-auth.json">>),
      Join(dataRoot, <<"AUTH.JSON">>),
      dataRoot,
      sshKeyPath }

ExtraConfigInputs == {syncConfigPath, customConfigPath, authJsonPath}

\* Longest extraSecretPaths / extraConfigPaths list.
MaxExtraPaths == 1

ListsOver(S) == UNION {[1 .. k -> S] : k \in 0 .. MaxExtraPaths}

Configs ==
    [includeSecrets : BOOLEAN, includeSessions : BOOLEAN,
     includePromptStash : BOOLEAN, includeModelFavorites : BOOLEAN,
     extraSecretPaths : ListsOver(ExtraSecretInputs),
     extraConfigPaths : ListsOver(ExtraConfigInputs),
     secretsBackend : {"none", "1password"}]

NoPlan == [items |-> <<>>,
           extraSecrets |-> [allowlist |-> <<>>, manifestPath |-> <<>>, entries |-> <<>>],
           extraConfigs |-> [allowlist |-> <<>>, manifestPath |-> <<>>, entries |-> <<>>],
           repoRoot |-> <<>>, homeDir |-> <<>>, platform |-> "none"]

NoConfig == [includeSecrets |-> FALSE, includeSessions |-> FALSE,
             includePromptStash |-> FALSE, includeModelFavorites |-> FALSE,
             extraSecretPaths |-> <<>>, extraConfigPaths |-> <<>>,
             secretsBackend |-> "none"]

\* An operation builds its plan from the loaded configuration.
BuildPlan ==
    /\ ppc = "config"
    /\ pPlan' = buildSyncPlan(pConfig, pPlatform)
    /\ ppc' = "planned"
    /\ UNCHANGED <<pConfig, pPlatform, pCopied, notPlanVars>>

\* A local -> mirror pass over the plan (push and startup pass
\* skipAuthTokens = TRUE, init passes nothing).
LocalToMirrorPass ==
    /\ ppc \in {"planned", "copied"}
    /\ \E skipAuthTokens \in BOOLEAN :
          pCopied' = pCopied \cup syncLocalToRepo(pPlan, skipAuthTokens)
    /\ ppc' = "copied"
    /\ UNCHANGED <<pConfig, pPlatform, pPlan, notPlanVars>>

(***************************************************************************)
(* Secrets backend descriptor                                              *)
(***************************************************************************)

\* String.prototype.trim on the strings of the model.
trim(x) ==
    CASE x = " a.json " -> "a.json"
      [] x = "  " -> ""
      [] OTHER -> x

\* name.trim().toLowerCase()
normalizeDocumentName(name) ==
    CASE name \in {"a.json", "A.JSON", " a.json "} -> "a.json"
      [] OTHER -> name

\* config.secretsBackend as written in the sync configuration file; "" is a
\* field that is not there, type "absent" a configuration without the
\* descriptor.
Descriptor(type, vault, authJson, mcpAuthJson) ==
    [type |-> type, vault |-> vault, authJson |-> authJson,
     mcpAuthJson |-> mcpAuthJson]

NoDescriptor == Descriptor("absent", "", "", "")

ValidDescriptor == Descriptor("1password", "Personal", "a.json", "b.json")

Descriptors ==
    {NoDescriptor,
     ValidDescriptor,
     Descriptor("vaultpass", "Personal", "a.json", "b.json"),
     Descriptor("1password", "", "a.json", "b.json"),
     Descriptor("1password", "  ", "a.json", "b.json"),
     Descriptor("1password", "Personal", "", "b.json"),
     Descriptor("1password", "Personal", "a.json", ""),
     Descriptor("1password", "Personal", "a.json", "a.json"),
     Descriptor("1password", "Personal", "A.JSON", "a.json"),
     Descriptor("1password", "Personal", " a.json ", "a.json")}

Invalid(error) == [state |-> "invalid", error |-> error]

\* resolveOnePasswordConfig without the comparison of the two names.
resolveOnePasswordConfigUnchecked(backend) ==
    IF trim(backend.vault) = "" THEN Invalid("vault is required")
    ELSE IF trim(backend.authJson) = "" \/ trim(backend.mcpAuthJson) = ""
    THEN Invalid("authJson and mcpAuthJson are required")
    ELSE [state |-> "ok", error |-> ""]

resolveOnePasswordConfig(backend) ==
    IF trim(backend.vault) = "" THEN Invalid("vault is required")
    ELSE IF trim(backend.authJson) = "" \/ trim(backend.mcpAuthJson) = ""
    THEN Invalid("authJson and mcpAuthJson are required")
    ELSE IF normalizeDocumentName(trim(backend.authJson))
               = normalizeDocumentName(trim(backend.mcpAuthJson))
    THEN Invalid("authJson and mcpAuthJson must be unique")
    ELSE [state |-> "ok", error |-> ""]

resolveSecretsBackendConfig(backend) ==
    IF backend.type = "absent" THEN [state |-> "none", error |-> ""]
    ELSE IF backend.type # "1password" THEN Invalid("Unsupported secrets backend type")
    ELSE resolveOnePasswordConfig(backend)

(***************************************************************************)
(* Orchestrator flows                                                      *)
(*                                                                         *)
(* One process runs startup, pull, push, init and link one after another.  *)
(* Commands that change something outside the process (gh, git clone,      *)
(* fetch, merge, commit, push, file copies, the secrets backend) may fail; *)
(* commands that only ask git about the mirror (status, rev-list,          *)
(* show-ref, ls-files) answer truthfully.  HEAD of the mirror is on the    *)
(* working branch.                                                         *)
(***************************************************************************)

\* Operations started in one run.
MaxOps == 2

\* Commits another machine can have pushed that this one has not fetched.
MaxRemoteNew == 1

Operations == {"startup", "pull", "push", "init", "link"}

SecretHashes == {"h1", "h2"}

NoOpConfig == [includeSecrets |-> FALSE, secretsBackend |-> "none"]

OpConfigs == [includeSecrets : BOOLEAN, secretsBackend : {"none", "1password"}]

\* The sync configuration file: absent, unparsable, or a configuration
\* with one of the secrets-backend descriptors.
ConfigFiles ==
    {[state |-> "absent", includeSecrets |-> FALSE, secretsBackend |-> NoDescriptor],
     [state |-> "corrupt", includeSecrets |-> FALSE, secretsBackend |-> NoDescriptor]}
        \cup [state : {"ok"}, includeSecrets : BOOLEAN, secretsBackend : Descriptors]

\* writeSyncConfig of a configuration made by init or link: no descriptor.
WrittenConfig(c) ==
    [state |-> "ok", includeSecrets |-> c.includeSecrets,
     secretsBackend |-> NoDescriptor]

EmptyState == [lastPull |-> 0, lastRemoteUpdate |-> 0, lastPush |-> 0,
               lastSecretsHash |-> "none"]

\* updateState(locations, patch): read the state file, replace the fields of
\* the patch, write it back.
updateState(state, patch) ==
    [k \in DOMAIN state |-> IF k \in DOMAIN patch THEN patch[k] ELSE state[k]]

RepoSnapshot == [dirty |-> dirty, ahead |-> ahead, behind |-> behind]

\* The operation goes on to step l.
Goto(l) ==
    /\ fpc' = l
    /\ UNCHANGED <<outcome, resultText>>

\* The operation's body ends: it returns, shows its toast or raises.
End(kind, text) ==
    /\ fpc' = "release"
    /\ outcome' = kind
    /\ resultText' = text

Throw(text) == End("error", text)

\* withSyncLock + tryAcquireSyncLock: the operation starts if the lock is
\* free; if another process holds it, startup skips (skipIfBusy) and a
\* command raises (runExclusive).
BeginOperation(op) ==
    /\ fpc = "idle"
    /\ clock < MaxOps
    /\ opKind' = op
    /\ clock' = clock + 1
    /\ opConfig' = NoOpConfig
    /\ created' = FALSE
    /\ secretsFailure' = FALSE
    /\ effects' = {}
    /\ startState' = syncState
    /\ startRepo' = RepoSnapshot
    /\ \E acquired \in BOOLEAN :
          IF acquired
          THEN /\ lockHeld' = TRUE
               /\ fpc' = "config"
               /\ outcome' = "none"
               /\ resultText' = "none"
          ELSE /\ lockHeld' = FALSE
               /\ fpc' = "idle"
               /\ outcome' = IF op = "startup" THEN "skipped" ELSE "error"
               /\ resultText' = "LockBusy"
    /\ UNCHANGED <<repoVars, configFile, syncState, localSecretsHash, unapplied,
                   remotePrivate, notFlowVars>>

\* startupSync: loadSyncConfig + assertValidSecretsBackend;
\* pull and push: getConfigOrThrow.
LoadConfig ==
    /\ fpc = "config"
    /\ opKind \in {"startup", "pull", "push"}
    /\ CASE configFile.state = "corrupt" ->
                /\ Throw("ConfigLoadFailed")
                /\ UNCHANGED opConfig
         [] configFile.state = "absent" ->
                /\ IF opKind = "startup"
                   THEN End("info", "NotConfigured")
                   ELSE Throw("ConfigMissing")
                /\ UNCHANGED opConfig
         [] configFile.state = "ok"
               /\ resolveSecretsBackendConfig(configFile.secretsBackend).state
                      = "invalid" ->
                /\ Throw("ConfigInvalid")
                /\ UNCHANGED opConfig
         [] OTHER ->
                /\ opConfig' = [includeSecrets |-> configFile.includeSecrets,
                              secretsBackend |-> IF configFile.secretsBackend.type
                                                      = "absent"
                                                 THEN "none" ELSE "1password"]
                /\ Goto("clone")
    /\ UNCHANGED <<opKind, created, clock, startState, startRepo, repoVars,
                   secretsFailure, lockHeld, effects, configFile, syncState,
                   localSecretsHash, unapplied, remotePrivate, notFlowVars>>

\* init: buildConfigFromInit, repoExists, createRepo, writeSyncConfig.  A
\* repository is created only when none exists, so there is no clone of it.
InitConfigure ==
    /\ fpc = "config"
    /\ opKind = "init"
    /\ \E includeSecrets \in BOOLEAN, private \in BOOLEAN,
          exists \in {TRUE} \cup {c \in {FALSE} : ~cloned}, ok \in BOOLEAN :
          IF ~ok
          THEN /\ Throw("InitFailed")
               /\ UNCHANGED <<opConfig, created, configFile, remotePrivate,
                              remoteNew, effects>>
          ELSE /\ opConfig' = [includeSecrets |-> includeSecrets,
                             secretsBackend |-> "none"]
               /\ created' = ~exists
               /\ remotePrivate' = IF exists THEN remotePrivate ELSE private
               /\ remoteNew' = IF exists THEN remoteNew ELSE 0
               /\ effects' = IF exists THEN effects ELSE effects \cup {"createRepo"}
               /\ configFile' = WrittenConfig(opConfig')
               /\ Goto("clone")
    /\ UNCHANGED <<opKind, clock, startState, startRepo, cloned, dirty, ahead,
                   behind, authTracked, secretsFailure, lockHeld, syncState,
                   localSecretsHash, unapplied, notFlowVars>>

\* link: findSyncRepo, writeSyncConfig of a configuration without secrets.
LinkConfigure ==
    /\ fpc = "config"
    /\ opKind = "link"
    /\ \E found \in BOOLEAN :
          IF ~found
          THEN /\ End("ok", "RepoNotFound")
               /\ UNCHANGED <<opConfig, configFile>>
          ELSE /\ opConfig' = NoOpConfig
               /\ configFile' = WrittenConfig(NoOpConfig)
               /\ Goto("clone")
    /\ UNCHANGED <<opKind, created, clock, startState, startRepo, repoVars,
                   secretsFailure, lockHeld, effects, syncState,
                   localSecretsHash, unapplied, remotePrivate, notFlowVars>>

\* ensureRepoCloned
ensureRepoCloned ==
    /\ fpc = "clone"
    /\ IF cloned
       THEN /\ Goto(IF opKind = "link" THEN "fetch" ELSE "policy")
            /\ UNCHANGED <<repoVars, effects>>
       ELSE \E ok \in BOOLEAN :
               IF ok
               THEN /\ cloned' = TRUE
                    /\ dirty' = FALSE
                    /\ ahead' = 0
                    /\ behind' = 0
                    /\ remoteNew' = 0
                    /\ effects' = effects \cup {"clone"}
                    /\ authTracked' \in BOOLEAN
                    /\ Goto(IF opKind = "link" THEN "fetch" ELSE "policy")
               ELSE /\ Throw("CloneFailed")
                    /\ UNCHANGED <<repoVars, effects>>
    /\ UNCHANGED <<opVars, secretsFailure, lockHeld, configFile, syncState,
                   localSecretsHash, unapplied, remotePrivate, notFlowVars>>

\* The mutation of RequiresPrivateRemote that never asks for the check.
RequiresNothing(cfg) == FALSE

\* if (!config.includeSecrets) return;
RequiresPrivateRemote(cfg) == cfg.includeSecrets

\* ensureSecretsPolicy + ensureRepoPrivate: gh repo view --json isPrivate.
ensureSecretsPolicy ==
    /\ fpc = "policy"
    /\ LET next == IF opKind # "init" THEN Goto("tracked")
                   ELSE IF created THEN Goto("localToRepo")
                   ELSE End("ok", "Configured")
       IN  IF ~RequiresPrivateRemote(opConfig)
           THEN /\ next
                /\ UNCHANGED effects
           ELSE \E viewed \in BOOLEAN :
                   IF ~viewed
                   THEN /\ Throw("RepoVisibility")
                        /\ UNCHANGED effects
                   ELSE IF ~remotePrivate
                   THEN /\ Throw("RepoPrivateRequired")
                        /\ UNCHANGED effects
                   ELSE /\ effects' = effects \cup {"verifiedPrivate"}
                        /\ next
    /\ UNCHANGED <<opVars, repoVars, secretsFailure, lockHeld, configFile,
                   syncState, localSecretsHash, unapplied, remotePrivate, notFlowVars>>

\* The mutation of OnTracked that goes on with the operation.
OnTrackedGoOn(tracked) == Goto("dirty")

\* if (tracked.length === 0) return; throw new SyncCommandError(...)
OnTracked(tracked) == IF tracked THEN Throw("AuthFilesTracked") ELSE Goto("dirty")

\* ensureAuthFilesNotTracked: git ls-files of data/auth.json and of
\* data/mcp-auth.json when a secrets backend is configured.
ensureAuthFilesNotTracked ==
    /\ fpc = "tracked"
    /\ IF ~hasSecretsBackend(opConfig)
       THEN Goto("dirty")
       ELSE OnTracked(authTracked)
    /\ UNCHANGED <<opVars, repoVars, secretsFailure, lockHeld, effects,
                   configFile, syncState, localSecretsHash, unapplied, remotePrivate,
                   notFlowVars>>

\* The mutation of OnDirty that goes on with the cycle.
OnDirtyGoOn(op) == Goto("fetch")

\* startup: warning toast and return; pull and push: throw.
OnDirty(op) ==
    IF op = "startup"
    THEN End("warning", "UncommittedChanges")
    ELSE Throw("UncommittedChanges")

\* resolveBranch, hasLocalChanges and the check that follows it.
CheckDirty ==
    /\ fpc = "dirty"
    /\ IF dirty
       THEN OnDirty(opKind)
       ELSE Goto(IF opKind = "push" THEN "localToRepo" ELSE "fetch")
    /\ UNCHANGED <<opVars, repoVars, secretsFailure, lockHeld, effects,
                   configFile, syncState, localSecretsHash, unapplied, remotePrivate,
                   notFlowVars>>

\* The mutation of IsDiverged that never reports a divergence.
NeverDiverged(a, b) == FALSE

\* if (ahead > 0 && behind > 0)
IsDiverged(a, b) == a > 0 /\ b > 0

\* fetchAndFastForward: git fetch, checkoutBranch, hasRemoteRef,
\* getAheadBehind, git merge --ff-only.  After the fetch origin/<branch>
\* holds everything the remote had.
fetchAndFastForward ==
    /\ fpc = "fetch"
    /\ \E fetched \in BOOLEAN, checkedOut \in BOOLEAN, merged \in BOOLEAN,
          remoteExists \in {TRUE} \cup {r \in {FALSE} : behind + remoteNew = 0} :
          LET behindNow == behind + remoteNew
              updated(u) ==
                  CASE opKind = "link" -> Goto("repoToLocal")
                    [] u -> Goto("repoToLocal")
                    [] opKind = "pull" -> End("ok", "AlreadyUpToDate")
                    [] OTHER -> Goto("localToRepo")
          IN  IF ~fetched
              THEN /\ Throw("FetchFailed")
                   /\ UNCHANGED <<behind, remoteNew, effects>>
              ELSE /\ remoteNew' = 0
                   /\ IF ~checkedOut
                      THEN /\ Throw("CheckoutFailed")
                           /\ behind' = behindNow
                           /\ effects' = effects \cup {"fetch"}
                      ELSE IF ~remoteExists
                      THEN /\ updated(FALSE)
                           /\ behind' = behindNow
                           /\ effects' = effects \cup {"fetch"}
                      ELSE IF IsDiverged(ahead, behindNow)
                      THEN /\ Throw("RepoDiverged")
                           /\ behind' = behindNow
                           /\ effects' = effects \cup {"fetch"}
                      ELSE IF behindNow > 0
                      THEN IF merged
                           THEN /\ updated(TRUE)
                                /\ behind' = 0
                                /\ effects' = effects \cup {"fetch", "merge"}
                           ELSE /\ Throw("FastForwardFailed")
                                /\ behind' = behindNow
                                /\ effects' = effects \cup {"fetch"}
                      ELSE /\ updated(FALSE)
                           /\ behind' = behindNow
                           /\ effects' = effects \cup {"fetch"}
    /\ unapplied' = (unapplied \/ "merge" \in effects')
    /\ UNCHANGED <<opVars, cloned, dirty, ahead, authTracked, secretsFailure,
                   lockHeld, configFile, syncState, localSecretsHash,
                   remotePrivate, notFlowVars>>

\* The mirror's copy of the sync configuration file, as the sync of another
\* machine pushed it (the file is an item of every plan).
MirrorConfigCopies ==
    [state : {"ok"}, includeSecrets : BOOLEAN,
     secretsBackend : {NoDescriptor, ValidDescriptor}]

\* The mutation of StepAfterApply that goes straight to the state update.
StepAfterApplyNoSecrets(op) == "statePull"

\* What follows syncRepoToLocal: the secrets-backend pull in startup and
\* pull, updateState in link.
StepAfterApply(op) == IF op = "link" THEN "statePull" ELSE "secretsPull"

\* buildSyncPlan + syncRepoToLocal.  A copy that fails may already have
\* written some files.  The sync configuration file is one of the items:
\* it is replaced by the mirror's copy when the mirror has one.
syncRepoToLocal ==
    /\ fpc = "repoToLocal"
    /\ \E ok \in BOOLEAN :
          IF ok
          THEN /\ effects' = effects \cup {"copyToLocal", "repoToLocal"}
               /\ Goto(StepAfterApply(opKind))
          ELSE /\ effects' = effects \cup {"copyToLocal"}
               /\ Throw("ApplyFailed")
    /\ unapplied' = (unapplied /\ "repoToLocal" \notin effects')
    /\ configFile' \in {configFile} \cup MirrorConfigCopies
    /\ UNCHANGED <<opVars, repoVars, secretsFailure, lockHeld, syncState,
                   localSecretsHash, remotePrivate, notFlowVars>>

\* runSecretsPullIfConfigured: backend.pull(), then updateSecretsHashState
\* (which leaves the state alone when the hash cannot be computed).
runSecretsPullIfConfigured ==
    /\ fpc = "secretsPull"
    /\ IF ~hasSecretsBackend(opConfig)
       THEN /\ Goto("statePull")
            /\ UNCHANGED <<effects, syncState, localSecretsHash>>
       ELSE \E pulled \in BOOLEAN, hash \in SecretHashes, hashed \in BOOLEAN :
               IF pulled
               THEN /\ effects' = effects \cup {"secretsPullCall", "secretsPull"}
                    /\ localSecretsHash' = hash
                    /\ syncState' = IF hashed
                                    THEN updateState(syncState,
                                             [lastSecretsHash |-> hash])
                                    ELSE syncState
                    /\ Goto("statePull")
               ELSE /\ Throw("SecretsPullFailed")
                    /\ effects' = effects \cup {"secretsPullCall"}
                    /\ UNCHANGED <<syncState, localSecretsHash>>
    /\ UNCHANGED <<opVars, repoVars, secretsFailure, lockHeld, configFile,
                   unapplied, remotePrivate, notFlowVars>>

\* updateState({ lastPull, lastRemoteUpdate }), then the toast and the return.
UpdateStatePull ==
    /\ fpc = "statePull"
    /\ syncState' = updateState(syncState,
                        [lastPull |-> clock, lastRemoteUpdate |-> clock])
    /\ effects' = effects \cup {"statePull"}
    /\ End("ok", IF opKind = "link" THEN "Linked" ELSE "RemoteApplied")
    /\ UNCHANGED <<opVars, repoVars, secretsFailure, lockHeld, configFile,
                   localSecretsHash, unapplied, remotePrivate, notFlowVars>>

\* buildSyncPlan + syncLocalToRepo + hasLocalChanges.  init copies the auth
\* items as well; push and startup pass skipAuthTokens.
syncLocalToRepoStep ==
    /\ fpc = "localToRepo"
    /\ \E ok \in BOOLEAN, changes \in BOOLEAN :
          IF ~ok
          THEN /\ effects' = effects \cup {"copyToMirror"}
               /\ dirty' = changes
               /\ Throw("CopyFailed")
          ELSE /\ effects' = effects \cup {"copyToMirror", "localToRepo"}
               /\ dirty' = changes
               /\ IF changes THEN Goto("commit")
                  ELSE IF opKind = "push" THEN Goto("secretsPushClean")
                  ELSE IF opKind = "init" THEN End("ok", "Configured")
                  ELSE End("ok", "NoChanges")
    /\ UNCHANGED <<opVars, cloned, ahead, behind, remoteNew, authTracked,
                   secretsFailure, lockHeld, configFile, syncState,
                   localSecretsHash, unapplied, remotePrivate, notFlowVars>>

\* generateCommitMessage + commitAll
commitAll ==
    /\ fpc = "commit"
    /\ \E ok \in BOOLEAN :
          IF ok
          THEN /\ dirty' = FALSE
               /\ ahead' = ahead + 1
               /\ effects' = effects \cup {"commit"}
               /\ Goto("push")
          ELSE /\ Throw("CommitFailed")
               /\ UNCHANGED <<dirty, ahead, effects>>
    /\ UNCHANGED <<opVars, cloned, behind, remoteNew, authTracked,
                   secretsFailure, lockHeld, configFile, syncState,
                   localSecretsHash, unapplied, remotePrivate, notFlowVars>>

\* The mutation of StepAfterPush in which every flow pushes the secrets.
StepAfterPushSecretsAlways(op) == "secretsPush"

\* What follows pushBranch: the secrets-backend push in the push command,
\* updateState({ lastPush }) in startup and init.
StepAfterPush(op) == IF op = "push" THEN "secretsPush" ELSE "statePush"

\* The mutation of OnPushFailure that goes on to record lastPush.
OnPushFailureGoOn == Goto("statePush")

\* throw new SyncCommandError(`Failed to push changes: ...`)
OnPushFailure == Throw("PushFailed")

\* pushBranch: git push -u origin <branch>; the remote refuses it when it
\* has commits the local branch lacks.
pushBranch ==
    /\ fpc = "push"
    /\ \E ok \in {FALSE} \cup {a \in {TRUE} : behind + remoteNew = 0} :
          IF ok
          THEN /\ ahead' = 0
               /\ effects' = effects \cup {"push"}
               /\ Goto(StepAfterPush(opKind))
          ELSE /\ OnPushFailure
               /\ UNCHANGED <<ahead, effects>>
    /\ UNCHANGED <<opVars, cloned, dirty, behind, remoteNew, authTracked,
                   secretsFailure, lockHeld, configFile, syncState,
                   localSecretsHash, unapplied, remotePrivate, notFlowVars>>

\* The mutation of OnSecretsPushFailure that lets the error escape.
OnSecretsPushFailureRethrow ==
    /\ secretsFailure' = TRUE
    /\ Throw("SecretsPushFailed")

\* catch (error) { secretsFailure = formatError(error); log.warn(...) }
OnSecretsPushFailure ==
    /\ secretsFailure' = TRUE
    /\ Goto("statePush")

\* push: runSecretsPushIfConfigured + pushSecretsWithBackend inside its
\* try/catch, after the repo push or when there was nothing to commit.
runSecretsPushIfConfigured ==
    /\ fpc \in {"secretsPush", "secretsPushClean"}
    /\ LET done(result) ==
               IF fpc = "secretsPush"
               THEN IF result = "failed"
                    THEN OnSecretsPushFailure
                    ELSE /\ secretsFailure' = FALSE
                         /\ Goto("statePush")
               ELSE /\ UNCHANGED secretsFailure
                    /\ End("ok", CASE result = "pushed" -> "NoChangesSecretsUpdated"
                                   [] result = "skipped" -> "NoChangesSecretsUnchanged"
                                   [] result = "failed" -> "NoChangesSecretsFailed"
                                   [] OTHER -> "NoChanges")
       IN  IF ~hasSecretsBackend(opConfig)
           THEN /\ done("not_configured")
                /\ UNCHANGED <<effects, syncState>>
           ELSE \E hashed \in BOOLEAN, pushed \in BOOLEAN :
                   IF hashed /\ syncState.lastSecretsHash = localSecretsHash
                   THEN /\ done("skipped")
                        /\ effects' = effects \cup {"secretsPushCall"}
                        /\ UNCHANGED syncState
                   ELSE IF pushed
                   THEN /\ effects' = effects \cup {"secretsPushCall", "secretsPush"}
                        /\ syncState' = IF hashed
                                        THEN updateState(syncState,
                                                 [lastSecretsHash |-> localSecretsHash])
                                        ELSE syncState
                        /\ done("pushed")
                   ELSE /\ done("failed")
                        /\ effects' = effects \cup {"secretsPushCall"}
                        /\ UNCHANGED syncState
    /\ UNCHANGED <<opVars, repoVars, lockHeld, configFile, localSecretsHash, unapplied,
                   remotePrivate, notFlowVars>>

\* updateState({ lastPush }) and the return that follows it.
UpdateStatePush ==
    /\ fpc = "statePush"
    /\ syncState' = updateState(syncState, [lastPush |-> clock])
    /\ effects' = effects \cup {"statePush"}
    /\ End("ok", CASE opKind = "init" -> "Configured"
                   [] secretsFailure -> "PushedSecretsFailed"
                   [] OTHER -> "Pushed")
    /\ UNCHANGED <<opVars, repoVars, secretsFailure, lockHeld, configFile,
                   localSecretsHash, unapplied, remotePrivate, notFlowVars>>

\* withSyncLock's finally: result.release(); the operation is over.
ReleaseLock ==
    /\ fpc = "release"
    /\ lockHeld' = FALSE
    /\ fpc' = "idle"
    /\ UNCHANGED <<opVars, repoVars, secretsFailure, effects, outcome,
                   resultText, configFile, syncState, localSecretsHash, unapplied,
                   remotePrivate, notFlowVars>>

\* Another machine pushes a commit to the remote.
RemoteAdvance ==
    /\ fpc = "idle"
    /\ remoteNew < MaxRemoteNew
    /\ remoteNew' = remoteNew + 1
    /\ UNCHANGED <<opVars, cloned, dirty, ahead, behind, authTracked, fpc,
                   secretsFailure, lockHeld, effects, outcome, resultText,
                   configFile, syncState, localSecretsHash, unapplied, remotePrivate,
                   notFlowVars>>

(***************************************************************************)
(* Secrets backend (1Password)                                             *)
(*                                                                         *)
(* One pull() or push() of the backend made by createOnePasswordBackend.   *)
(* The op commands may fail; other machines may add and remove documents   *)
(* between the listing of the vault and the command that uses it.  The     *)
(* temporary directory is always made; the rename onto the target may fail.*)
(***************************************************************************)

\* Copies of one title a vault holds.
MaxCopies == 2

\* Changes other machines make to the vault while a call runs.
MaxVaultChanges == 1

\* The two secrets, by the field of the descriptor that names their document.
Secrets == <<"authJson", "mcpAuthJson">>

SecretNames == {Secrets[i] : i \in 1 .. Len(Secrets)}

\* Titles of documents, and the names a descriptor can give.
Titles == {"a.json", "A.JSON", " a.json ", "b.json"}

\* Names a resolved descriptor can give: resolveOnePasswordConfig trims them.
DocumentNames == {"a.json", "A.JSON", "b.json"}

\* A resolved descriptor: the two names differ after normalisation.
BackendConfigs ==
    {c \in [vault : {"Personal"}, authJson : DocumentNames,
            mcpAuthJson : DocumentNames] :
        normalizeDocumentName(c.authJson) # normalizeDocumentName(c.mcpAuthJson)}

Vaults == [Titles -> 0 .. MaxCopies]

EmptyIndex == [t \in Titles |-> 0]

RECURSIVE SumOver(_, _)
SumOver(S, f) ==
    IF S = {} THEN 0
    ELSE LET x == CHOOSE y \in S : TRUE
         IN f[x] + SumOver(S \ {x}, f)

\* index.get(key) ?? []: the entries the listing grouped under the key.
Matches(index, key) ==
    SumOver({t \in Titles : normalizeDocumentName(t) = key}, index)

\* A lookup that takes every name to have exactly one document.
lookupAlwaysOk(index, documentName) == [state |-> "ok", count |-> 1]

lookupDocument(index, documentName) ==
    LET count == Matches(index, normalizeDocumentName(documentName))
    IN IF count = 0 THEN [state |-> "missing", count |-> 0]
       ELSE IF count > 1 THEN [state |-> "duplicate", count |-> count]
       ELSE [state |-> "ok", count |-> 1]

NoLookup == [state |-> "none", count |-> 0]

NoError == [kind |-> "none"]

\* new SyncCommandError(`Multiple documents named "${documentName}" found in
\* vault "${vault}". Rename them to be unique.`): the values the message
\* carries.
AmbiguityError(documentName, vault, count) ==
    [kind |-> "ambiguous", documentName |-> documentName, vault |-> vault]

CommandError(kind) == [kind |-> kind]

\* The call raises error e.
BackendThrow(e) ==
    /\ bError' = e
    /\ bpc' = "idle"

\* The call goes on after document i.
AfterDocument(i) ==
    /\ bpc' = IF i < Len(Secrets) THEN "document" ELSE "idle"
    /\ UNCHANGED bError

\* backend.pull() or backend.push() is called.
BackendCall(op) ==
    /\ bpc = "idle"
    /\ bOp = "none"
    /\ bOp' = op
    /\ bpc' = "op"
    /\ bIndex' = EmptyIndex
    /\ bLog' = {}
    /\ bLookup' = [s \in SecretNames |-> NoLookup]
    /\ bError' = NoError
    /\ bChanges' = 0
    /\ UNCHANGED <<bConfig, bVault, bLocal, bTarget, bTemp, notBackendVars>>

\* ensureOpAvailable: op --version.
ensureOpAvailable ==
    /\ bpc = "op"
    /\ \E ok \in BOOLEAN :
          IF ok
          THEN /\ bpc' = IF bOp = "push" THEN "existing" ELSE "list"
               /\ UNCHANGED bError
          ELSE BackendThrow(CommandError("OpNotFound"))
    /\ UNCHANGED <<bOp, bConfig, bVault, bIndex, bLocal, bTarget, bTemp, bLog, bLookup,
                   bChanges, notBackendVars>>

\* push: if (!existing.some(Boolean)) return
CheckExisting ==
    /\ bpc = "existing"
    /\ bpc' = IF \E s \in SecretNames : bLocal[s] THEN "list" ELSE "idle"
    /\ UNCHANGED <<bOp, bConfig, bVault, bIndex, bLocal, bTarget, bTemp, bLog, bLookup,
                   bError, bChanges, notBackendVars>>

\* listVaultDocuments: op item list, grouped by normalised title.
listVaultDocuments ==
    /\ bpc = "list"
    /\ \E ok \in BOOLEAN :
          IF ok
          THEN /\ bIndex' = bVault
               /\ bpc' = "document"
               /\ UNCHANGED bError
          ELSE /\ BackendThrow(CommandError("ListFailed"))
               /\ UNCHANGED bIndex
    /\ UNCHANGED <<bOp, bConfig, bVault, bLocal, bTarget, bTemp, bLog, bLookup, bChanges,
                   notBackendVars>>

\* The document the call is about to handle: the first whose lookup has not
\* been made.
NextDocument ==
    CHOOSE i \in 1 .. Len(Secrets) :
        /\ bLookup[Secrets[i]] = NoLookup
        /\ \A j \in 1 .. i - 1 : bLookup[Secrets[j]] # NoLookup

\* lookupDocumentWithRetry: list the vault again; null when that fails.
RetryLookups(documentName) ==
    {lookupDocument(bVault, documentName), NoLookup}

\* fs.rename(sourcePath, targetPath) and the copy that stands in for it
\* across devices: what becomes of the target.
RenameOutcomes == {"renamed", "failed", "EXDEV"}

\* replaceFile(sourcePath, targetPath): rename, and on EXDEV copyFile +
\* unlink; a copy that fails has opened the target for writing.
replaceFile(rename, copied) ==
    IF rename = "renamed" THEN [target |-> "downloaded", threw |-> FALSE]
    ELSE IF rename = "failed" THEN [target |-> "previous", threw |-> TRUE]
    ELSE IF copied THEN [target |-> "downloaded", threw |-> FALSE]
    ELSE [target |-> "damaged", threw |-> TRUE]

\* The mutation of opDocumentGet that takes every download for complete.
opDocumentGetUnchecked(ran, present) == TRUE

\* opDocumentGet: op document get --out-file tempPath returns normally only
\* when the command ran to its end on a document the vault holds.
opDocumentGet(ran, present) == ran /\ present

\* pullDocument(vault, documentName, targetPath, index)
pullDocument ==
    /\ bpc = "document"
    /\ bOp = "pull"
    /\ LET i == NextDocument
           s == Secrets[i]
           documentName == bConfig[s]
           lookup == lookupDocument(bIndex, documentName)
       IN /\ bLookup' = [bLookup EXCEPT ![s] = lookup]
          /\ CASE lookup.state = "missing" ->
                     /\ AfterDocument(i)
                     /\ UNCHANGED <<bLocal, bTarget, bTemp, bLog>>
               [] lookup.state = "duplicate" ->
                     /\ BackendThrow(AmbiguityError(documentName, bConfig.vault,
                                                    lookup.count))
                     /\ UNCHANGED <<bLocal, bTarget, bTemp, bLog>>
               [] lookup.state = "ok" ->
                     \E ran \in {TRUE, FALSE} :
                        IF opDocumentGet(ran,
                               Matches(bVault, normalizeDocumentName(documentName)) > 0)
                        THEN \E rename \in RenameOutcomes, copied \in BOOLEAN :
                                LET replaced == replaceFile(rename, copied)
                                IN  /\ bTarget' = [bTarget EXCEPT ![s] =
                                                      IF replaced.target = "previous"
                                                      THEN @ ELSE replaced.target]
                                    /\ bLocal' = [bLocal EXCEPT ![s] =
                                                     IF replaced.target = "previous"
                                                     THEN @ ELSE TRUE]
                                    /\ bTemp' = [bTemp EXCEPT ![s] =
                                          ran /\ Matches(bVault,
                                              normalizeDocumentName(documentName)) > 0]
                                    /\ bLog' = IF replaced.threw THEN bLog
                                               ELSE bLog \cup {[kind |-> "replaced",
                                                                secret |-> s]}
                                    /\ IF replaced.threw
                                       THEN BackendThrow(CommandError("ReplaceFailed"))
                                       ELSE AfterDocument(i)
                        ELSE /\ UNCHANGED <<bLocal, bTarget, bTemp, bLog>>
                             /\ \E retryLookup \in RetryLookups(documentName) :
                                   CASE retryLookup.state = "missing" -> AfterDocument(i)
                                     [] retryLookup.state = "duplicate" ->
                                           BackendThrow(AmbiguityError(documentName,
                                               bConfig.vault, retryLookup.count))
                                     [] OTHER ->
                                           BackendThrow(CommandError("DownloadFailed"))
    /\ UNCHANGED <<bOp, bConfig, bVault, bIndex, bChanges, notBackendVars>>

\* opDocumentCreate for secret s: a new document titled documentName, or a
\* failed command.
CreateDocument(i, s, documentName) ==
    \E made \in {TRUE, FALSE} :
        IF made /\ bVault[documentName] < MaxCopies
        THEN /\ bVault' = [bVault EXCEPT ![documentName] = @ + 1]
             /\ bLog' = bLog \cup {[kind |-> "created", secret |-> s]}
             /\ AfterDocument(i)
        ELSE /\ BackendThrow(CommandError("CreateFailed"))
             /\ UNCHANGED <<bVault, bLog>>

\* pushDocument(vault, documentName, sourcePath, index)
pushDocument ==
    /\ bpc = "document"
    /\ bOp = "push"
    /\ LET i == NextDocument
           s == Secrets[i]
           documentName == bConfig[s]
           lookup == lookupDocument(bIndex, documentName)
       IN IF ~bLocal[s]
          THEN /\ bLookup' = [bLookup EXCEPT ![s] = [state |-> "skipped", count |-> 0]]
               /\ AfterDocument(i)
               /\ UNCHANGED <<bVault, bLog>>
          ELSE /\ bLookup' = [bLookup EXCEPT ![s] = lookup]
               /\ CASE lookup.state = "duplicate" ->
                          /\ BackendThrow(AmbiguityError(documentName, bConfig.vault,
                                                         lookup.count))
                          /\ UNCHANGED <<bVault, bLog>>
                    [] lookup.state = "missing" ->
                          CreateDocument(i, s, documentName)
                    [] lookup.state = "ok" ->
                          \E edited \in {TRUE, FALSE} :
                             IF edited /\ Matches(bVault, normalizeDocumentName(documentName)) > 0
                             THEN /\ bLog' = bLog \cup {[kind |-> "edited", secret |-> s]}
                                  /\ AfterDocument(i)
                                  /\ UNCHANGED bVault
                             ELSE \E retryLookup \in RetryLookups(documentName) :
                                     CASE retryLookup.state = "missing" ->
                                              CreateDocument(i, s, documentName)
                                       [] retryLookup.state = "duplicate" ->
                                              /\ BackendThrow(AmbiguityError(documentName,
                                                     bConfig.vault, retryLookup.count))
                                              /\ UNCHANGED <<bVault, bLog>>
                                       [] OTHER ->
                                              /\ BackendThrow(CommandError("UpdateFailed"))
                                              /\ UNCHANGED <<bVault, bLog>>
    /\ UNCHANGED <<bOp, bConfig, bIndex, bLocal, bTarget, bTemp, bChanges, notBackendVars>>

\* Another machine adds a document to the vault or removes one while the
\* call is between its listing and its last document.
VaultChange ==
    /\ bpc = "document"
    /\ bChanges < MaxVaultChanges
    /\ bChanges' = bChanges + 1
    /\ \E t \in Titles, n \in 0 .. MaxCopies :
          /\ n # bVault[t]
          /\ n - bVault[t] \in {-1, 1}
          /\ bVault' = [bVault EXCEPT ![t] = n]
    /\ UNCHANGED <<bOp, bpc, bConfig, bIndex, bLocal, bTarget, bTemp, bLog, bLookup,
                   bError, notBackendVars>>

BackendIdle ==
    /\ bOp = "none"
    /\ bpc = "off"
    /\ bConfig = [vault |-> "Personal", authJson |-> "a.json", mcpAuthJson |-> "b.json"]
    /\ bVault = EmptyIndex
    /\ bIndex = EmptyIndex
    /\ bLocal = [s \in SecretNames |-> FALSE]
    /\ bTarget = [s \in SecretNames |-> "previous"]
    /\ bTemp = [s \in SecretNames |-> FALSE]
    /\ bLog = {}
    /\ bLookup = [s \in SecretNames |-> NoLookup]
    /\ bError = NoError
    /\ bChanges = 0

(***************************************************************************)
(* Extra paths: manifest and mirror -> local application                   *)
(***************************************************************************)

sshDirPath == Join(HomeDir, <<".ssh">>)

\* Paths a user lists as extra paths: a private key by its absolute path and
\* through the home shortcut, the directory that holds it, a config file.
ExtraInputs ==
    { sshKeyPath,
      <<"~", ".ssh", "id_rsa">>,
      sshDirPath,
      customConfigPath }

ExtraPathLists == ListsOver(ExtraInputs)

repoSecretsExtraDir == Join(repoRoot, <<"secrets", "extra">>)
secretsManifestPath == Join(repoRoot, <<"secrets", "extra-manifest.json">>)

\* plan.extraSecrets of the plan built from the configured paths.
ExtraPlan(paths, platform) ==
    buildExtraPathPlan(paths, repoSecretsExtraDir, secretsManifestPath, platform)

\* path.relative(from, to) for a path below from.
pathRelative(from, to) == SubSeq(to, Len(from) + 1, Len(to))

\* path.isAbsolute
isAbsolute(p) == p # <<>> /\ Head(p) = "/"

\* fs.stat(sourcePath): the one directory among the paths is ~/.ssh.
StatType(p) == IF p = sshDirPath THEN "dir" ELSE "file"

NoManifest == [present |-> FALSE, entries |-> <<>>]

\* writeExtraPathManifest(plan, extra), with the sources in onDisk present
\* on disk: the manifest and the copies it leaves in the mirror.
writeExtraPathManifest(extra, onDisk) ==
    IF extra.allowlist = <<>>
    THEN [manifest |-> NoManifest, mirror |-> {}]
    ELSE LET Exists(entry) == entry.sourcePath \in onDisk
             copied == SelectSeq(extra.entries, Exists)
         IN  [manifest |->
                 [present |-> TRUE,
                  entries |-> [i \in 1 .. Len(copied) |->
                                  [sourcePath |-> copied[i].sourcePath,
                                   repoPath |-> pathRelative(repoRoot, copied[i].repoPath),
                                   type |-> StatType(copied[i].sourcePath)]]],
              mirror |-> {copied[i].repoPath : i \in 1 .. Len(copied)}]

\* The mutation of isAllowed that lets every manifest entry through.
isAllowedAlways(allowlist, normalized) == TRUE

\* allowlist.includes(normalized)
isAllowed(allowlist, normalized) == normalized \in Range(allowlist)

\* applyExtraPaths(plan, extra): the manifest entries it copies to local.
applyExtraPaths(extra, platform, manifest, mirror) ==
    IF extra.allowlist = <<>> THEN {}
    ELSE IF ~manifest.present THEN {}
    ELSE {entry \in Range(manifest.entries) :
             /\ isAllowed(extra.allowlist,
                          normalizePath(entry.sourcePath, HomeDir, platform))
             /\ (IF isAbsolute(entry.repoPath) THEN entry.repoPath
                 ELSE Join(repoRoot, entry.repoPath)) \in mirror}

\* What a local -> mirror pass on some machine can leave in the mirror.
WrittenMirrors ==
    {writeExtraPathManifest(ExtraPlan(paths, platform), onDisk) :
        paths \in ExtraPathLists, platform \in Platforms,
        onDisk \in SUBSET {sshKeyPath, sshDirPath, customConfigPath}}

\* The user edits the extra paths of the configuration.
Reconfigure ==
    /\ \E paths \in ExtraPathLists :
          /\ paths # xPaths
          /\ xPaths' = paths
          /\ xRemoved' = Range(ExtraPlan(xPaths, xPlatform).allowlist)
                             \ Range(ExtraPlan(paths, xPlatform).allowlist)
    /\ xApplied' = {}
    /\ xWritten' = {}
    /\ xpc' = "config"
    /\ UNCHANGED <<xPlatform, xManifest, xMirror, notExtraVars>>

\* syncLocalToRepo: writeExtraPathManifest(plan, plan.extraSecrets).
WriteExtraManifest ==
    /\ \E onDisk \in SUBSET {sshKeyPath, sshDirPath, customConfigPath} :
          LET written == writeExtraPathManifest(ExtraPlan(xPaths, xPlatform),
                                                onDisk)
          IN  /\ xManifest' = written.manifest
              /\ xMirror' = written.mirror
    /\ xApplied' = {}
    /\ xWritten' = {}
    /\ xpc' = "written"
    /\ UNCHANGED <<xPaths, xRemoved, xPlatform, notExtraVars>>

\* fetchAndFastForward brings in the mirror another machine pushed.
FetchMirror ==
    /\ \E written \in WrittenMirrors :
          /\ written.manifest # xManifest
          /\ xManifest' = written.manifest
          /\ xMirror' = written.mirror
    /\ xApplied' = {}
    /\ xWritten' = {}
    /\ xpc' = "fetched"
    /\ UNCHANGED <<xPaths, xRemoved, xPlatform, notExtraVars>>

\* syncRepoToLocal: applyExtraPaths(plan, plan.extraSecrets); copyItem writes
\* entry.sourcePath and, for a directory, what lies below it.
ApplyExtraPaths ==
    /\ xpc # "applied"
    /\ LET applied == applyExtraPaths(ExtraPlan(xPaths, xPlatform), xPlatform,
                                      xManifest, xMirror)
       IN  /\ xApplied' = applied
           /\ xWritten' = UNION {FilesCopiedFrom(entry.sourcePath, xPlatform) :
                                    entry \in applied}
    /\ xpc' = "applied"
    /\ UNCHANGED <<xPaths, xRemoved, xPlatform, xManifest, xMirror, notExtraVars>>

ExtraIdle ==
    /\ xPaths = <<>>
    /\ xRemoved = {}
    /\ xPlatform = "none"
    /\ xManifest = NoManifest
    /\ xMirror = {}
    /\ xApplied = {}
    /\ xWritten = {}
    /\ xpc = "idle"

(***************************************************************************)
(* Config files through local -> mirror and mirror -> local                *)
(***************************************************************************)

\* A JSON file: the document it parses to and its text, either as a user
\* wrote it (comments, own layout) or as writeJsonFile prints it.
File(doc, text) == [doc |-> doc, text |-> text]
AbsentFile == File(Undefined, "none")
pathExists(file) == file # AbsentFile

parseJsonc(file) == file.doc

\* writeJsonFile: JSON.stringify(data, null, 2), with the generated-by
\* comment line in a .jsonc file.
writeJsonFile(data) == File(data, "generated")

isDeepEqual(left, right) == left = right

Null == Undefined

\* Overrides files: none, or an object over one key of the documents.
OverrideDocuments == ObjectsOver({"a"}, Scalars \cup InnerObjects)

\* The mutation of copyConfigForRepo that writes the stripped config without
\* comparing the local file with what the mirror and the overrides give.
copyConfigForRepoAlways(local, overrides, repo) ==
    IF ~pathExists(local) THEN AbsentFile
    ELSE LET baseConfig == IF pathExists(repo) THEN parseJsonc(repo) ELSE Null
             effectiveOverrides == IF overrides = Null THEN Obj(EmptyFields)
                                   ELSE overrides
         IN  writeJsonFile(stripOverrides(parseJsonc(local), effectiveOverrides,
                                          baseConfig))

\* copyConfigForRepo(item, overrides, repoRoot, configOverride) for a config
\* without MCP secrets: the mirror's copy it leaves.
copyConfigForRepo(local, overrides, repo) ==
    IF ~pathExists(local) THEN AbsentFile
    ELSE LET localConfig == parseJsonc(local)
             baseConfig == IF pathExists(repo) THEN parseJsonc(repo) ELSE Null
             effectiveOverrides == IF overrides = Null THEN Obj(EmptyFields)
                                   ELSE overrides
         IN  IF /\ baseConfig # Null
                /\ isDeepEqual(localConfig, deepMerge(baseConfig, effectiveOverrides))
             THEN repo
             ELSE writeJsonFile(stripOverrides(localConfig, effectiveOverrides,
                                               baseConfig))

\* The mutation of copyItem that makes the destination the image of the
\* source, missing when the source is.
copyItemMirroring(source, destination) == source

\* The mutation of copyItem that copies nothing.
copyItemNever(source, destination) == destination

\* copyItem(sourcePath, destinationPath, 'file'): the destination it leaves.
copyItem(source, destination) ==
    IF ~pathExists(source) THEN destination ELSE source

\* The mutation of applyOverridesToLocalConfig that leaves the file alone.
applyNoOverrides(local, overrides) == local

\* applyOverridesToLocalConfig for one config file.
applyOverridesToLocalConfig(local, overrides) ==
    IF ~pathExists(local) THEN local
    ELSE writeJsonFile(deepMerge(parseJsonc(local), overrides))

\* syncLocalToRepo, the config item.
LocalToRepoConfig ==
    /\ cpc = "start"
    /\ cRepo' = copyConfigForRepo(cLocal, cOverrides, cRepo)
    /\ cpc' = "inMirror"
    /\ UNCHANGED <<cLocal, cOverrides, cOriginal, notConfigVars>>

\* syncRepoToLocal, the config item: copyItem, then the overrides on top when
\* there are any.  It runs after a local -> mirror pass ("done") or on the
\* mirror as a fast-forward left it ("applied").
RepoToLocalConfig ==
    /\ cpc \in {"start", "inMirror"}
    /\ LET copied == copyItem(cRepo, cLocal)
       IN  cLocal' = IF cOverrides # Null /\ ObjectKeys(cOverrides) # {}
                     THEN applyOverridesToLocalConfig(copied, cOverrides)
                     ELSE copied
    /\ cpc' = IF cpc = "start" THEN "applied" ELSE "done"
    /\ UNCHANGED <<cRepo, cOverrides, cOriginal, notConfigVars>>

ConfigIdle ==
    /\ cLocal = AbsentFile
    /\ cRepo = AbsentFile
    /\ cOverrides = Null
    /\ cOriginal = AbsentFile
    /\ cpc = "off"

(***************************************************************************)
(* Resolve command                                                         *)
(***************************************************************************)

\* The text of an AI response: without a {...} part, with one that is not
\* JSON, or with a JSON object holding (or lacking) action and message.
ResponseTexts ==
    {[kind |-> "noBraces", action |-> "absent", message |-> "absent"],
     [kind |-> "notJson", action |-> "absent", message |-> "absent"]}
        \cup [kind : {"object"},
              action : {"commit", "discard", "reset", "manual", "absent"},
              message : {"absent", "empty", "text"}]

NoText == [kind |-> "none", action |-> "absent", message |-> "absent"]

\* What asking the AI collaborator comes to: git diff fails, no small model,
\* no session, the prompt call raises, a response without text, a response.
AiOutcomes ==
    {[step |-> s, text |-> NoText] :
        s \in {"diffFails", "noModel", "noSession", "promptThrows", "noText"}}
        \cup {[step |-> "answered", text |-> t] : t \in ResponseTexts}

NoAi == [step |-> "notAsked", text |-> NoText]

Decision(action, message) == [action |-> action, message |-> message]
NoDecision == Decision("none", "absent")

\* The mutation of parseResolutionDecision that takes a commit without a
\* message and a "reset" action as decisions.
parseResolutionDecisionLoose(text) ==
    IF text.kind = "object" /\ text.action = "commit"
    THEN Decision("commit", text.message)
    ELSE IF text.kind = "object" /\ text.action \in {"discard", "reset"}
    THEN Decision("reset", "absent")
    ELSE Decision("manual", "absent")

parseResolutionDecision(text) ==
    IF text.kind = "noBraces" THEN Decision("manual", "absent")
    ELSE IF text.kind = "notJson" THEN Decision("manual", "absent")
    ELSE IF text.action = "commit" /\ text.message = "text"
    THEN Decision("commit", text.message)
    ELSE IF text.action = "discard" THEN Decision("reset", "absent")
    ELSE Decision("manual", "absent")

analyzeAndDecideResolution(ai) ==
    IF ai.step # "answered" THEN Decision("manual", "absent")
    ELSE parseResolutionDecision(ai.text)

ResolveMirror ==
    [cloned |-> rsCloned, modified |-> rsModified, untracked |-> rsUntracked,
     ahead |-> rsAhead]

ResolveEnd(text) ==
    /\ rspc' = "done"
    /\ rsResult' = text

\* runExclusive + getConfigOrThrow
ResolveBegin ==
    /\ rspc = "idle"
    /\ \E acquired \in BOOLEAN, loaded \in BOOLEAN :
          IF ~acquired THEN ResolveEnd("LockBusy")
          ELSE IF ~loaded THEN ResolveEnd("ConfigError")
          ELSE /\ rspc' = "clone"
               /\ UNCHANGED rsResult
    /\ UNCHANGED <<rsCloned, rsModified, rsUntracked, rsAhead, rsStart, rsAi,
                   rsDecision, rsLog, notResolveVars>>

\* ensureRepoCloned
ResolveEnsureCloned ==
    /\ rspc = "clone"
    /\ IF rsCloned
       THEN /\ rspc' = "status"
            /\ UNCHANGED <<rsCloned, rsLog, rsResult>>
       ELSE \E ok \in BOOLEAN :
               IF ok
               THEN /\ rsCloned' = TRUE
                    /\ rsLog' = rsLog \cup {"clone"}
                    /\ rspc' = "status"
                    /\ UNCHANGED rsResult
               ELSE /\ ResolveEnd("CloneFailed")
                    /\ UNCHANGED <<rsCloned, rsLog>>
    /\ UNCHANGED <<rsModified, rsUntracked, rsAhead, rsStart, rsAi, rsDecision,
                   notResolveVars>>

\* hasLocalChanges
ResolveCheckDirty ==
    /\ rspc = "status"
    /\ IF ~(rsModified \/ rsUntracked)
       THEN ResolveEnd("NoChanges")
       ELSE /\ rspc' = "analyze"
            /\ UNCHANGED rsResult
    /\ UNCHANGED <<rsCloned, rsModified, rsUntracked, rsAhead, rsStart, rsAi,
                   rsDecision, rsLog, notResolveVars>>

\* getRepoStatus + analyzeAndDecideResolution
ResolveAnalyze ==
    /\ rspc = "analyze"
    /\ \E ai \in AiOutcomes :
          /\ rsAi' = ai
          /\ rsDecision' = analyzeAndDecideResolution(ai)
    /\ rspc' = "act"
    /\ UNCHANGED <<rsCloned, rsModified, rsUntracked, rsAhead, rsStart, rsLog,
                   rsResult, notResolveVars>>

\* decision.action === 'commit': commitAll
ResolveCommit ==
    /\ rspc = "act"
    /\ rsDecision.action = "commit"
    /\ \E ok \in BOOLEAN :
          IF ok
          THEN /\ rsModified' = FALSE
               /\ rsUntracked' = FALSE
               /\ rsAhead' = rsAhead + 1
               /\ rsLog' = rsLog \cup {"commit"}
               /\ ResolveEnd("Committed")
          ELSE /\ ResolveEnd("CommitFailed")
               /\ UNCHANGED <<rsModified, rsUntracked, rsAhead, rsLog>>
    /\ UNCHANGED <<rsCloned, rsStart, rsAi, rsDecision, notResolveVars>>

\* decision.action === 'reset': git reset --hard HEAD, then git clean -fd
ResolveReset ==
    /\ rspc = "act"
    /\ rsDecision.action = "reset"
    /\ \E resetOk \in BOOLEAN, cleanOk \in BOOLEAN :
          IF ~resetOk
          THEN /\ ResolveEnd("ResetFailed")
               /\ UNCHANGED <<rsModified, rsUntracked, rsLog>>
          ELSE IF ~cleanOk
          THEN /\ rsModified' = FALSE
               /\ rsLog' = rsLog \cup {"resetHard"}
               /\ ResolveEnd("ResetFailed")
               /\ UNCHANGED rsUntracked
          ELSE /\ rsModified' = FALSE
               /\ rsUntracked' = FALSE
               /\ rsLog' = rsLog \cup {"resetHard", "clean"}
               /\ ResolveEnd("Discarded")
    /\ UNCHANGED <<rsCloned, rsAhead, rsStart, rsAi, rsDecision, notResolveVars>>

\* Neither: the command returns the resolve-by-hand message.
ResolveManual ==
    /\ rspc = "act"
    /\ rsDecision.action \notin {"commit", "reset"}
    /\ ResolveEnd("Manual")
    /\ UNCHANGED <<rsCloned, rsModified, rsUntracked, rsAhead, rsStart, rsAi,
                   rsDecision, rsLog, notResolveVars>>

ResolveIdle ==
    /\ rspc = "off"
    /\ rsCloned = FALSE
    /\ rsModified = FALSE
    /\ rsUntracked = FALSE
    /\ rsAhead = 0
    /\ rsStart = [cloned |-> FALSE, modified |-> FALSE, untracked |-> FALSE,
                  ahead |-> 0]
    /\ rsAi = NoAi
    /\ rsDecision = NoDecision
    /\ rsLog = {}
    /\ rsResult = "none"

(***************************************************************************)
(* Secrets hash: secrets-pull and secrets-push                             *)
(*                                                                         *)
(* One machine with a secrets backend configured.  Between commands the    *)
(* user may change the two auth files.  The backend's pull and push may    *)
(* fail, and reading a file for the hash may fail.                         *)
(***************************************************************************)

\* Commands started in one run.
MaxSecretsOps == 3

\* The two auth files: each absent or holding one of two contents.
AuthFileStates == [auth : {"absent", "a", "b"}, mcpAuth : {"absent", "a"}]

\* No hash: lastSecretsHash is not in the state file, or the hash could not
\* be computed.
NoHash == [auth |-> "nohash", mcpAuth |-> "nohash"]

\* hashFiles([authPath, mcpAuthPath]): a digest of each path, whether the
\* file exists, and its content; different files give different digests.
hashFiles(files) == files

computeSecretsHash(files) == hashFiles(files)

\* computeSecretsHashSafe: null when a file cannot be read.
computeSecretsHashSafe(files, readable) ==
    IF readable THEN computeSecretsHash(files) ELSE NoHash

\* The mutation of updateSecretsHashState that records no hash.
updateSecretsHashStateNever(state, files, readable) == state

\* updateSecretsHashState: the lastSecretsHash it leaves in the state.
updateSecretsHashState(state, files, readable) ==
    LET hash == computeSecretsHashSafe(files, readable)
    IN  IF hash = NoHash THEN state ELSE hash

\* pushSecretsWithBackend decides to skip: the hash is there and equals the
\* recorded one.
SkipsPush(state, hash) == hash # NoHash /\ state = hash

\* The user changes an auth file between two commands.
EditAuthFiles ==
    /\ hpc = "idle"
    /\ \E files \in AuthFileStates \ {hFiles} : hFiles' = files
    /\ UNCHANGED <<hState, hSynced, hRecorded, hHashed, hCalls, hResult, hOps, hpc,
                   notHashVars>>

\* A secrets-pull or a secrets-push command starts (runSecretsCommand with
\* a backend resolved).
SecretsBegin ==
    /\ hpc = "idle"
    /\ hOps < MaxSecretsOps
    /\ hOps' = hOps + 1
    /\ \E command \in {"secretsPull", "secretsPush"} : hpc' = command
    /\ hCalls' = {}
    /\ hResult' = "none"
    /\ hHashed' = TRUE
    /\ UNCHANGED <<hFiles, hState, hSynced, hRecorded, notHashVars>>

\* secretsPull: backend.pull(), then updateSecretsHashState.  A pull that
\* fails at the second document may have replaced the first.
secretsPull ==
    /\ hpc = "secretsPull"
    /\ \E pulled \in BOOLEAN, files \in AuthFileStates, readable \in BOOLEAN :
          IF pulled
          THEN /\ hFiles' = files
               /\ hCalls' = {"pull", "pullDone"}
               /\ hState' = updateSecretsHashState(hState, files, readable)
               /\ hSynced' = hashFiles(files)
               /\ hRecorded' = readable
               /\ hHashed' = readable
               /\ hResult' = "Pulled"
          ELSE /\ files.mcpAuth = hFiles.mcpAuth
               /\ hFiles' = files
               /\ hCalls' = {"pull"}
               /\ hResult' = "SecretsPullFailed"
               /\ UNCHANGED <<hState, hSynced, hRecorded, hHashed>>
    /\ hpc' = "idle"
    /\ UNCHANGED <<hOps, notHashVars>>

\* secretsPush: pushSecretsWithBackend.
secretsPush ==
    /\ hpc = "secretsPush"
    /\ \E readable \in BOOLEAN, pushed \in BOOLEAN :
          LET hash == computeSecretsHashSafe(hFiles, readable)
          IN  /\ hHashed' = readable
              /\ IF SkipsPush(hState, hash)
                 THEN /\ hCalls' = {}
                      /\ hResult' = "skipped"
                      /\ UNCHANGED <<hState, hSynced, hRecorded>>
                 ELSE IF pushed
                 THEN /\ hCalls' = {"push", "pushDone"}
                      /\ hState' = IF hash # NoHash THEN hash ELSE hState
                      /\ hSynced' = hashFiles(hFiles)
                      /\ hRecorded' = readable
                      /\ hResult' = "pushed"
                 ELSE /\ hCalls' = {"push"}
                      /\ hResult' = "SecretsPushFailed"
                      /\ UNCHANGED <<hState, hSynced, hRecorded>>
    /\ hpc' = "idle"
    /\ UNCHANGED <<hFiles, hOps, notHashVars>>

HashIdle ==
    /\ hFiles = [auth |-> "absent", mcpAuth |-> "absent"]
    /\ hState = NoHash
    /\ hSynced = NoHash
    /\ hRecorded = FALSE
    /\ hHashed = FALSE
    /\ hCalls = {}
    /\ hResult = "none"
    /\ hOps = 0
    /\ hpc = "off"

(***************************************************************************)
(* Commit-message generation                                               *)
(*                                                                         *)
(* A text is a sequence of characters: a letter, a space, a double quote   *)
(* or a line feed.  git, the configuration lookup and the AI collaborator  *)
(* may each fail or answer anything.                                       *)
(***************************************************************************)

\* Length of the short AI answers.
MaxAnswerLen == 3

\* sanitizeMessage keeps at most this many characters.
SubjectLimit == 72

Characters == {"f", " ", "\"", "\n"}

Whitespace == {" ", "\n"}

Quotes == {"\""}

\* The answers of the AI: every short text, and texts longer than the limit
\* (letters only, with a space at the limit, quoted).
LongAnswers ==
    {[i \in 1 .. SubjectLimit + 2 |-> "f"],
     [i \in 1 .. SubjectLimit + 2 |-> IF i = SubjectLimit THEN " " ELSE "f"],
     [i \in 1 .. SubjectLimit + 2 |-> IF i \in {1, SubjectLimit + 2} THEN "\"" ELSE "f"]}

AnswerTexts ==
    UNION {[1 .. n -> Characters] : n \in 0 .. MaxAnswerLen} \cup LongAnswers

\* What session.prompt gave: it threw, an error response, a response
\* without a text part, or a response whose first text part is a text.
PromptAnswers ==
    {[kind |-> k, text |-> <<>>] : k \in {"throws", "error", "noText"}}
        \cup {[kind |-> "text", text |-> t] : t \in AnswerTexts}

NoAnswer == [kind |-> "none", text |-> <<>>]

\* `Sync OpenCode config (${formatDate(fallbackDate)})`
fallback == <<"f", "f", "f", "f", " ", "f", "f">>

RECURSIVE TrimStart(_, _)
TrimStart(s, drop) ==
    IF s # <<>> /\ Head(s) \in drop THEN TrimStart(Tail(s), drop) ELSE s

RECURSIVE TrimEnd(_, _)
TrimEnd(s, drop) ==
    IF s # <<>> /\ s[Len(s)] \in drop
    THEN TrimEnd(SubSeq(s, 1, Len(s) - 1), drop)
    ELSE s

\* String.prototype.trim
trimText(s) == TrimEnd(TrimStart(s, Whitespace), Whitespace)

RECURSIVE FirstLine(_)
FirstLine(s) ==
    IF s = <<>> \/ Head(s) = "\n" THEN <<>> ELSE <<Head(s)>> \o FirstLine(Tail(s))

\* extractTextFromResponse(unwrapData(response) ?? response): null (the
\* empty text here) without a non-empty text part, else that text trimmed.
extractTextFromResponse(answer) ==
    IF answer.kind = "text" /\ answer.text # <<>> THEN trimText(answer.text) ELSE <<>>

\* sanitizeMessage: the first line, trimmed, without quotes around it, cut
\* to the limit.
sanitizeMessage(message) ==
    LET firstLine == trimText(FirstLine(message))
        trimmed == trimText(TrimEnd(TrimStart(firstLine, Quotes), Quotes))
    IN  IF trimmed = <<>> THEN <<>>
        ELSE IF Len(trimmed) <= SubjectLimit THEN trimmed
        ELSE trimText(SubSeq(trimmed, 1, SubjectLimit))

\* The mutation of SanitizedOrFallback that returns the sanitized message
\* whatever it is.
SanitizedAlways(sanitized) == sanitized

\* return sanitized || fallback
SanitizedOrFallback(sanitized) ==
    IF sanitized = <<>> THEN fallback ELSE sanitized

GenerateReturn(message, cause) ==
    /\ gMessage' = message
    /\ gCause' = cause
    /\ gpc' = "returned"

\* getDiffSummary inside its try/catch, and `if (!diffSummary) return fallback`.
getDiffSummary ==
    /\ gpc = "diff"
    /\ \E git \in {"changes", "nothing", "failed"} :
          /\ gDiff' = IF git = "changes" THEN <<"f">> ELSE <<>>
          /\ IF gDiff' = <<>>
             THEN GenerateReturn(fallback, "noDiff")
             ELSE /\ gpc' = "model"
                  /\ UNCHANGED <<gMessage, gCause>>
    /\ UNCHANGED <<gSession, gAnswer, notCommitVars>>

\* resolveSmallModel inside its try/catch: null when the configuration
\* cannot be read or names no provider/model pair.
resolveModel ==
    /\ gpc = "model"
    /\ \E config \in {"throws", "error", "noModel", "malformed", "small_model", "model"} :
          IF config \in {"small_model", "model"}
          THEN /\ gpc' = "create"
               /\ UNCHANGED <<gMessage, gCause>>
          ELSE GenerateReturn(fallback, "noModel")
    /\ UNCHANGED <<gDiff, gSession, gAnswer, notCommitVars>>

\* session.create and unwrapData: no session id, or a throw, ends with the
\* fallback.
createSession ==
    /\ gpc = "create"
    /\ \E created_ \in {"throws", "error", "noId", "session"} :
          IF created_ = "session"
          THEN /\ gSession' = TRUE
               /\ gpc' = "prompt"
               /\ UNCHANGED <<gMessage, gCause>>
          ELSE /\ gSession' = FALSE
               /\ GenerateReturn(fallback, "noSession")
    /\ UNCHANGED <<gDiff, gAnswer, notCommitVars>>

\* session.prompt, extractTextFromResponse, sanitizeMessage, and the catch;
\* the return waits for the finally block.
promptSession ==
    /\ gpc = "prompt"
    /\ \E answer \in PromptAnswers :
          /\ gAnswer' = answer
          /\ IF answer.kind = "throws"
             THEN /\ gMessage' = fallback
                  /\ gCause' = "promptFailed"
             ELSE LET message == extractTextFromResponse(answer)
                      sanitized == sanitizeMessage(message)
                  IN  IF message = <<>>
                      THEN /\ gMessage' = fallback
                           /\ gCause' = "emptyResponse"
                      ELSE /\ gMessage' = SanitizedOrFallback(sanitized)
                           /\ gCause' = IF sanitized = <<>> THEN "emptyMessage"
                                        ELSE "none"
    /\ gpc' = "finally"
    /\ UNCHANGED <<gDiff, gSession, notCommitVars>>

\* finally: session.delete inside its own try/catch, then the return.
deleteSession ==
    /\ gpc = "finally"
    /\ \E deleted \in BOOLEAN : gSession' = ~deleted
    /\ gpc' = "returned"
    /\ UNCHANGED <<gDiff, gAnswer, gCause, gMessage, notCommitVars>>

CommitIdle ==
    /\ gpc = "off"
    /\ gDiff = <<>>
    /\ gSession = FALSE
    /\ gAnswer = NoAnswer
    /\ gCause = "none"
    /\ gMessage = <<>>

(***************************************************************************)
(* Link command and the sync configuration file                            *)
(*                                                                         *)
(* The sync configuration file is an item of every plan (addFile of        *)
(* DEFAULT_SYNC_CONFIG_NAME), so the mirror holds a copy once any machine  *)
(* has pushed.  The clone, the fetch and the copies may fail.              *)
(***************************************************************************)

\* A sync configuration file on disk.
SyncConfigFile(c) == IF c.state = "absent" THEN AbsentFile ELSE File(c, "user")

\* writeSyncConfig(locations, config) of link: every include flag false.
LinkedConfig == File(WrittenConfig(NoOpConfig), "generated")

\* findSyncRepo: without a repository the command returns its hint.
LinkFind ==
    /\ kpc = "find"
    /\ \E found \in BOOLEAN : kpc' = IF found THEN "write" ELSE "notFound"
    /\ UNCHANGED <<kConfig, kMirror, notLinkVars>>

\* normalizeSyncConfig + writeSyncConfig
LinkWriteConfig ==
    /\ kpc = "write"
    /\ kConfig' = LinkedConfig
    /\ kpc' = "fetch"
    /\ UNCHANGED <<kMirror, notLinkVars>>

\* ensureRepoCloned + fetchAndFastForward: the mirror is as the remote has
\* it, or as it was when nothing was fetched.
LinkFetch ==
    /\ kpc = "fetch"
    /\ \E ok \in BOOLEAN :
          IF ok
          THEN /\ \E c \in {kMirror, AbsentFile}
                        \cup {SyncConfigFile(m) : m \in MirrorConfigCopies} :
                      kMirror' = c
               /\ kpc' = "apply"
          ELSE /\ kpc' = "failed"
               /\ UNCHANGED kMirror
    /\ UNCHANGED <<kConfig, notLinkVars>>

\* syncRepoToLocal, the sync configuration item: copyItem of a file that is
\* not a config file (no overrides are applied to it).
LinkApply ==
    /\ kpc = "apply"
    /\ \E ok \in BOOLEAN :
          IF ok
          THEN /\ kConfig' = copyItem(kMirror, kConfig)
               /\ kpc' = "state"
          ELSE /\ kConfig' \in {kConfig, copyItem(kMirror, kConfig)}
               /\ kpc' = "failed"
    /\ UNCHANGED <<kMirror, notLinkVars>>

\* updateState({ lastPull, lastRemoteUpdate }) and the message.
LinkRecord ==
    /\ kpc = "state"
    /\ kpc' = "linked"
    /\ UNCHANGED <<kConfig, kMirror, notLinkVars>>

LinkIdle ==
    /\ kConfig = AbsentFile
    /\ kMirror = AbsentFile
    /\ kpc = "off"

(***************************************************************************)
(* External calls of one backend pull or push                              *)
(*                                                                         *)
(* The same pull() and push() as above, one op command per step.  Every    *)
(* command returns or throws; other machines change the vault between      *)
(* commands, so a second listing may show anything.                        *)
(***************************************************************************)

\* A cap on the commands of one call, above what any call runs.
MaxExternalCalls == 12

LookupStates == {"missing", "duplicate", "ok"}

\* lookupDocumentWithRetry: the lookup on a fresh listing, null when the
\* listing fails.
RetryLookupStates == LookupStates \cup {"null"}

\* The mutation that downloads or edits again when the second listing
\* shows exactly one document.
AfterRetryLookupAgain(op, state) ==
    IF state = "missing" THEN IF op = "pull" THEN "next" ELSE "create"
    ELSE IF state = "ok" THEN IF op = "pull" THEN "get" ELSE "edit"
    ELSE "failed"

\* The catch blocks of pullDocument and pushDocument: what follows the
\* second lookup.  Only a missing document is not an error.
AfterRetryLookup(op, state) ==
    IF state = "missing" THEN IF op = "pull" THEN "next" ELSE "create"
    ELSE "failed"

\* One op command is run.
RunCommand ==
    /\ dCalls < MaxExternalCalls
    /\ dCalls' = dCalls + 1

\* The position after document dDoc, or a named position in it.
DocumentGoto(target) ==
    IF target = "next"
    THEN /\ dpc' = IF dDoc < Len(Secrets) THEN "document" ELSE "done"
         /\ dDoc' = IF dDoc < Len(Secrets) THEN dDoc + 1 ELSE dDoc
    ELSE /\ dpc' = target
         /\ UNCHANGED dDoc

\* ensureOpAvailable: op --version; push returns when neither file exists.
opVersion ==
    /\ dpc = "version"
    /\ RunCommand
    /\ \E ok \in BOOLEAN :
          dpc' = IF ~ok THEN "failed"
                 ELSE IF dOp = "push" /\ \A s \in SecretNames : ~dLocal[s] THEN "done"
                 ELSE "list"
    /\ UNCHANGED <<dOp, dDoc, dIndex, dLocal, dRelists, notCallsVars>>

\* listVaultDocuments: op item list.
opItemList ==
    /\ dpc = "list"
    /\ RunCommand
    /\ \E ok \in BOOLEAN : dpc' = IF ok THEN "document" ELSE "failed"
    /\ UNCHANGED <<dOp, dDoc, dIndex, dLocal, dRelists, notCallsVars>>

\* pullDocument / pushDocument up to their first command.
lookupStep ==
    /\ dpc = "document"
    /\ LET s == Secrets[dDoc]
           state == dIndex[s]
       IN IF dOp = "pull"
          THEN DocumentGoto(IF state = "missing" THEN "next"
                            ELSE IF state = "duplicate" THEN "failed"
                            ELSE "get")
          ELSE DocumentGoto(IF ~dLocal[s] THEN "next"
                            ELSE IF state = "duplicate" THEN "failed"
                            ELSE IF state = "missing" THEN "create"
                            ELSE "edit")
    /\ UNCHANGED <<dOp, dIndex, dLocal, dCalls, dRelists, notCallsVars>>

\* op document get, then replaceFile (no command; it may throw).
opDocumentGetCall ==
    /\ dpc = "get"
    /\ RunCommand
    /\ \E ok \in BOOLEAN, replaced \in BOOLEAN :
          DocumentGoto(IF ~ok THEN "relist"
                       ELSE IF replaced THEN "next" ELSE "failed")
    /\ UNCHANGED <<dOp, dIndex, dLocal, dRelists, notCallsVars>>

\* op document edit
opDocumentEdit ==
    /\ dpc = "edit"
    /\ RunCommand
    /\ \E ok \in BOOLEAN : DocumentGoto(IF ok THEN "next" ELSE "relist")
    /\ UNCHANGED <<dOp, dIndex, dLocal, dRelists, notCallsVars>>

\* lookupDocumentWithRetry: op item list again, and what the catch block
\* does with the lookup.
lookupDocumentWithRetry ==
    /\ dpc = "relist"
    /\ RunCommand
    /\ dRelists' = [dRelists EXCEPT ![Secrets[dDoc]] = @ + 1]
    /\ \E state \in RetryLookupStates : DocumentGoto(AfterRetryLookup(dOp, state))
    /\ UNCHANGED <<dOp, dIndex, dLocal, notCallsVars>>

\* op document create
opDocumentCreate ==
    /\ dpc = "create"
    /\ RunCommand
    /\ \E ok \in BOOLEAN : DocumentGoto(IF ok THEN "next" ELSE "failed")
    /\ UNCHANGED <<dOp, dIndex, dLocal, dRelists, notCallsVars>>

CallsIdle ==
    /\ dOp = "none"
    /\ dpc = "off"
    /\ dDoc = 1
    /\ dIndex = [s \in SecretNames |-> "missing"]
    /\ dLocal = [s \in SecretNames |-> FALSE]
    /\ dCalls = 0
    /\ dRelists = [s \in SecretNames |-> 0]

(***************************************************************************)
(* One plan through local -> mirror and mirror -> local                    *)
(*                                                                         *)
(* A plan of two entries: a config file (without MCP secrets) and one      *)
(* other entry, which is a plain file item, an auth-token item or an extra *)
(* path.  A pass runs to its end.                                          *)
(***************************************************************************)

ItemKinds == {"file", "authToken", "extra"}

\* Config documents of the plan: objects over the key the overrides name.
ApplyDocuments == ObjectsOver({"a"}, Scalars \cup InnerObjects)

\* Contents of a file that is not a config file.
PlainFiles == {File(Scalar("zero"), "user"), File(Scalar("one"), "user")}

\* The extra path of the plan, and the plan.extraSecrets it gives.
ApplyExtraPlan(allowed) ==
    ExtraPlan(IF allowed THEN <<customConfigPath>> ELSE <<>>, "linux")

ExtraRepoPath == ApplyExtraPlan(TRUE).entries[1].repoPath

\* The mutation of copyItem with removeWhenMissing that keeps the
\* destination of a missing source.
copyItemKeeping(source, destination) ==
    IF ~pathExists(source) THEN destination ELSE source

\* copyItem(sourcePath, destinationPath, type, true): a missing source
\* removes the destination.
copyItemOrRemove(source, destination) ==
    IF ~pathExists(source) THEN AbsentFile ELSE source

ApplySnapshot ==
    [cfgLocal |-> yCfgLocal, cfgRepo |-> yCfgRepo, otherLocal |-> yOtherLocal,
     otherRepo |-> yOtherRepo, manifest |-> yManifest]

\* syncLocalToRepo(plan, overrides, { skipAuthTokens }): every plan item,
\* then writeExtraPathManifest.
syncLocalToRepoPass ==
    /\ ypc \in {"start", "toRepo"}
    /\ yPrev' = ApplySnapshot
    /\ yCfgRepo' = copyConfigForRepo(yCfgLocal, yOverrides, yCfgRepo)
    /\ LET written == writeExtraPathManifest(ApplyExtraPlan(yAllowed),
                          IF pathExists(yOtherLocal) THEN {customConfigPath} ELSE {})
       IN  IF yKind = "extra"
           THEN /\ yManifest' = written.manifest
                /\ yOtherRepo' = IF ExtraRepoPath \in written.mirror
                                 THEN yOtherLocal ELSE AbsentFile
           ELSE /\ yManifest' = NoManifest
                /\ yOtherRepo' = IF ySkipAuth /\ yKind = "authToken"
                                 THEN yOtherRepo
                                 ELSE copyItemOrRemove(yOtherLocal, yOtherRepo)
    /\ ypc' = IF ypc = "start" THEN "toRepo" ELSE "toRepo2"
    /\ UNCHANGED <<yKind, ySkipAuth, yAllowed, yOverrides, yCfgLocal, yOtherLocal,
                   notApplyVars>>

\* syncRepoToLocal(plan, overrides): every plan item, applyExtraPaths, then
\* the overrides on the config files.
syncRepoToLocalPass ==
    /\ ypc = "start"
    /\ yPrev' = ApplySnapshot
    /\ LET copied == copyItem(yCfgRepo, yCfgLocal)
       IN  yCfgLocal' = IF yOverrides # Null /\ ObjectKeys(yOverrides) # {}
                        THEN applyOverridesToLocalConfig(copied, yOverrides)
                        ELSE copied
    /\ LET applied == applyExtraPaths(ApplyExtraPlan(yAllowed), "linux", yManifest,
                          IF pathExists(yOtherRepo) THEN {ExtraRepoPath} ELSE {})
       IN  yOtherLocal' = IF yKind = "extra" /\ applied = {}
                          THEN yOtherLocal
                          ELSE copyItem(yOtherRepo, yOtherLocal)
    /\ ypc' = "toLocal"
    /\ UNCHANGED <<yKind, ySkipAuth, yAllowed, yOverrides, yCfgRepo, yOtherRepo,
                   yManifest, notApplyVars>>

ApplyIdle ==
    /\ yKind = "file"
    /\ ySkipAuth = FALSE
    /\ yAllowed = FALSE
    /\ yOverrides = Null
    /\ yCfgLocal = AbsentFile
    /\ yCfgRepo = AbsentFile
    /\ yOtherLocal = AbsentFile
    /\ yOtherRepo = AbsentFile
    /\ yManifest = NoManifest
    /\ yPrev = [cfgLocal |-> AbsentFile, cfgRepo |-> AbsentFile,
                otherLocal |-> AbsentFile, otherRepo |-> AbsentFile,
                manifest |-> NoManifest]
    /\ ypc = "off"

(***************************************************************************)
(* Specifications                                                          *)
(***************************************************************************)

LockIdle ==
    /\ lockFile = NoFile
    /\ pc = [p \in Procs |-> "idle"]
    /\ attempt = [p \in Procs |-> 0]
    /\ existing = [p \in Procs |-> NullInfo]
    /\ shouldBreakLock = [p \in Procs |-> FALSE]
    /\ opens = [p \in Procs |-> 0]
    /\ concurrent = [p \in Procs |-> FALSE]
    /\ wrapper = "none"
    /\ bodyRan = FALSE
    /\ callResult = "none"

MergeIdle ==
    /\ mBase = Undefined
    /\ mOverrides = Undefined
    /\ mMerged = Undefined
    /\ mStripped = Undefined
    /\ mpc = "off"

PlanIdle ==
    /\ pConfig = NoConfig
    /\ pPlatform = "none"
    /\ pPlan = NoPlan
    /\ pCopied = {}
    /\ ppc = "off"

FlowIdle ==
    /\ opKind = "none"
    /\ fpc = "off"
    /\ opConfig = NoOpConfig
    /\ created = FALSE
    /\ secretsFailure = FALSE
    /\ lockHeld = FALSE
    /\ effects = {}
    /\ outcome = "none"
    /\ resultText = "none"
    /\ clock = 0
    /\ startState = EmptyState
    /\ startRepo = [dirty |-> FALSE, ahead |-> 0, behind |-> 0]
    /\ configFile \in {c \in ConfigFiles : c.state = "absent"}
    /\ syncState = EmptyState
    /\ localSecretsHash = "h1"
    /\ unapplied = FALSE
    /\ remotePrivate = TRUE
    /\ cloned = FALSE
    /\ dirty = FALSE
    /\ ahead = 0
    /\ behind = 0
    /\ remoteNew = 0
    /\ authTracked = FALSE

LockInit ==
    /\ lockFile \in {NoFile} \cup LeftoverFiles
    /\ pc = [p \in Procs |-> "idle"]
    /\ attempt = [p \in Procs |-> 0]
    /\ existing = [p \in Procs |-> NullInfo]
    /\ shouldBreakLock = [p \in Procs |-> FALSE]
    /\ opens = [p \in Procs |-> 0]
    /\ concurrent = [p \in Procs |-> FALSE]
    /\ wrapper = "none"
    /\ bodyRan = FALSE
    /\ callResult = "none"
    /\ MergeIdle
    /\ PlanIdle
    /\ FlowIdle
    /\ BackendIdle
    /\ ExtraIdle
    /\ ConfigIdle
    /\ ResolveIdle
    /\ HashIdle
    /\ CommitIdle
    /\ LinkIdle
    /\ CallsIdle
    /\ ApplyIdle

LockNext ==
    \E p \in Procs :
        \/ tryAcquireSyncLock(p)
        \/ OpenExclusive(p)
        \/ WriteOurInfo(p)
        \/ ReadExisting(p)
        \/ ProbeOwner(p)
        \/ RemoveStale(p)
        \/ BusyReturn(p)
        \/ RunBody(p)
        \/ ReleaseClose(p)
        \/ ReleaseRm(p)

LockSpec == LockInit /\ [][LockNext]_vars

MergeInit ==
    /\ mBase \in Documents
    /\ mOverrides \in Documents
    /\ mMerged = Undefined
    /\ mStripped = Undefined
    /\ mpc = "input"
    /\ LockIdle
    /\ PlanIdle
    /\ FlowIdle
    /\ BackendIdle
    /\ ExtraIdle
    /\ ConfigIdle
    /\ ResolveIdle
    /\ HashIdle
    /\ CommitIdle
    /\ LinkIdle
    /\ CallsIdle
    /\ ApplyIdle

MergeNext == ApplyOverrides \/ StripForRepo

MergeSpec == MergeInit /\ [][MergeNext]_vars

PlanInit ==
    /\ pConfig \in Configs
    /\ pPlatform \in Platforms
    /\ pPlan = NoPlan
    /\ pCopied = {}
    /\ ppc = "config"
    /\ LockIdle
    /\ MergeIdle
    /\ FlowIdle
    /\ BackendIdle
    /\ ExtraIdle
    /\ ConfigIdle
    /\ ResolveIdle
    /\ HashIdle
    /\ CommitIdle
    /\ LinkIdle
    /\ CallsIdle
    /\ ApplyIdle

PlanNext == BuildPlan \/ LocalToMirrorPass

PlanSpec == PlanInit /\ [][PlanNext]_vars

\* The machine before an operation: any configuration file, a mirror that is
\* missing or in any state earlier operations and the user can have left it
\* in, and a SyncState file without timestamps.
FlowInit ==
    /\ opKind = "none"
    /\ fpc = "idle"
    /\ opConfig = NoOpConfig
    /\ created = FALSE
    /\ secretsFailure = FALSE
    /\ lockHeld = FALSE
    /\ effects = {}
    /\ outcome = "none"
    /\ resultText = "none"
    /\ clock = 0
    /\ configFile \in ConfigFiles
    /\ syncState \in {updateState(EmptyState, [lastSecretsHash |-> h]) :
                          h \in {"none", "h1"}}
    /\ localSecretsHash \in SecretHashes
    /\ unapplied = FALSE
    /\ remotePrivate \in BOOLEAN
    /\ cloned \in BOOLEAN
    /\ dirty \in {d \in BOOLEAN : d => cloned}
    /\ ahead \in {a \in 0 .. 1 : a > 0 => cloned}
    /\ behind \in {b \in 0 .. 1 : b > 0 => cloned}
    /\ remoteNew \in 0 .. MaxRemoteNew
    /\ authTracked \in {t \in BOOLEAN : t => cloned}
    /\ startState = syncState
    /\ startRepo = RepoSnapshot
    /\ LockIdle
    /\ MergeIdle
    /\ PlanIdle
    /\ BackendIdle
    /\ ExtraIdle
    /\ ConfigIdle
    /\ ResolveIdle
    /\ HashIdle
    /\ CommitIdle
    /\ LinkIdle
    /\ CallsIdle
    /\ ApplyIdle

FlowNext ==
    \/ \E op \in Operations : BeginOperation(op)
    \/ LoadConfig
    \/ InitConfigure
    \/ LinkConfigure
    \/ ensureRepoCloned
    \/ ensureSecretsPolicy
    \/ ensureAuthFilesNotTracked
    \/ CheckDirty
    \/ fetchAndFastForward
    \/ syncRepoToLocal
    \/ runSecretsPullIfConfigured
    \/ UpdateStatePull
    \/ syncLocalToRepoStep
    \/ commitAll
    \/ pushBranch
    \/ runSecretsPushIfConfigured
    \/ UpdateStatePush
    \/ ReleaseLock
    \/ RemoteAdvance

FlowSpec == FlowInit /\ [][FlowNext]_vars

\* The steps of a running operation.  An operation is a sequential chain of
\* awaited steps without cancellation: once started it runs to its end.
\* Nothing obliges the user to start another operation.
FlowStep ==
    \/ LoadConfig
    \/ InitConfigure
    \/ LinkConfigure
    \/ ensureRepoCloned
    \/ ensureSecretsPolicy
    \/ ensureAuthFilesNotTracked
    \/ CheckDirty
    \/ fetchAndFastForward
    \/ syncRepoToLocal
    \/ runSecretsPullIfConfigured
    \/ UpdateStatePull
    \/ syncLocalToRepoStep
    \/ commitAll
    \/ pushBranch
    \/ runSecretsPushIfConfigured
    \/ UpdateStatePush
    \/ ReleaseLock

FlowFairSpec == FlowInit /\ [][FlowNext]_vars /\ WF_vars(FlowStep)

BackendInit ==
    /\ bOp = "none"
    /\ bpc = "idle"
    /\ bConfig \in BackendConfigs
    /\ bVault \in Vaults
    /\ bIndex = EmptyIndex
    /\ bLocal \in [SecretNames -> BOOLEAN]
    /\ bTarget = [s \in SecretNames |-> "previous"]
    /\ bTemp = [s \in SecretNames |-> FALSE]
    /\ bLog = {}
    /\ bLookup = [s \in SecretNames |-> NoLookup]
    /\ bError = NoError
    /\ bChanges = 0
    /\ LockIdle
    /\ MergeIdle
    /\ PlanIdle
    /\ FlowIdle
    /\ ExtraIdle
    /\ ConfigIdle
    /\ ResolveIdle
    /\ HashIdle
    /\ CommitIdle
    /\ LinkIdle
    /\ CallsIdle
    /\ ApplyIdle

BackendNext ==
    \/ \E op \in {"pull", "push"} : BackendCall(op)
    \/ ensureOpAvailable
    \/ CheckExisting
    \/ listVaultDocuments
    \/ pullDocument
    \/ pushDocument
    \/ VaultChange

BackendSpec == BackendInit /\ [][BackendNext]_vars

ExtraInit ==
    /\ xPaths \in ExtraPathLists
    /\ xRemoved = {}
    /\ xPlatform \in Platforms
    /\ \E written \in WrittenMirrors :
          /\ xManifest = written.manifest
          /\ xMirror = written.mirror
    /\ xApplied = {}
    /\ xWritten = {}
    /\ xpc = "config"
    /\ LockIdle
    /\ MergeIdle
    /\ PlanIdle
    /\ FlowIdle
    /\ BackendIdle
    /\ ConfigIdle
    /\ ResolveIdle
    /\ HashIdle
    /\ CommitIdle
    /\ LinkIdle
    /\ CallsIdle
    /\ ApplyIdle

ExtraNext ==
    \/ Reconfigure
    \/ WriteExtraManifest
    \/ FetchMirror
    \/ ApplyExtraPaths

ExtraSpec == ExtraInit /\ [][ExtraNext]_vars

\* Any local config file, as the user wrote it or as an earlier pass left
\* it, any copy in the mirror, any overrides file.
ConfigInit ==
    /\ cLocal \in {AbsentFile}
                  \cup {File(doc, text) : doc \in Documents,
                                          text \in {"user", "generated"}}
    /\ cRepo \in {AbsentFile}
                 \cup {File(doc, text) : doc \in Documents, text \in {"generated"}}
    /\ cOverrides \in {Null} \cup OverrideDocuments
    /\ cOriginal = cLocal
    /\ cpc = "start"
    /\ LockIdle
    /\ MergeIdle
    /\ PlanIdle
    /\ FlowIdle
    /\ BackendIdle
    /\ ExtraIdle
    /\ ResolveIdle
    /\ HashIdle
    /\ CommitIdle
    /\ LinkIdle
    /\ CallsIdle
    /\ ApplyIdle

ConfigNext == LocalToRepoConfig \/ RepoToLocalConfig

ConfigSpec == ConfigInit /\ [][ConfigNext]_vars

ResolveInit ==
    /\ rspc = "idle"
    /\ rsCloned \in BOOLEAN
    /\ rsModified \in {m \in BOOLEAN : m => rsCloned}
    /\ rsUntracked \in {u \in BOOLEAN : u => rsCloned}
    /\ rsAhead \in {a \in 0 .. 1 : a > 0 => rsCloned}
    /\ rsStart = ResolveMirror
    /\ rsAi = NoAi
    /\ rsDecision = NoDecision
    /\ rsLog = {}
    /\ rsResult = "none"
    /\ LockIdle
    /\ MergeIdle
    /\ PlanIdle
    /\ FlowIdle
    /\ BackendIdle
    /\ ExtraIdle
    /\ ConfigIdle
    /\ HashIdle
    /\ CommitIdle
    /\ LinkIdle
    /\ CallsIdle
    /\ ApplyIdle

ResolveNext ==
    \/ ResolveBegin
    \/ ResolveEnsureCloned
    \/ ResolveCheckDirty
    \/ ResolveAnalyze
    \/ ResolveCommit
    \/ ResolveReset
    \/ ResolveManual

ResolveSpec == ResolveInit /\ [][ResolveNext]_vars

\* A machine that has not yet called the backend: any auth files, and a
\* state file without lastSecretsHash or with one an earlier run recorded.
HashInit ==
    /\ hFiles \in AuthFileStates
    /\ hState \in {NoHash} \cup AuthFileStates
    /\ hSynced = NoHash
    /\ hRecorded = FALSE
    /\ hHashed = TRUE
    /\ hCalls = {}
    /\ hResult = "none"
    /\ hOps = 0
    /\ hpc = "idle"
    /\ LockIdle
    /\ MergeIdle
    /\ PlanIdle
    /\ FlowIdle
    /\ BackendIdle
    /\ ExtraIdle
    /\ ConfigIdle
    /\ ResolveIdle
    /\ CommitIdle
    /\ LinkIdle
    /\ CallsIdle
    /\ ApplyIdle

HashNext ==
    \/ EditAuthFiles
    \/ SecretsBegin
    \/ secretsPull
    \/ secretsPush

HashSpec == HashInit /\ [][HashNext]_vars

\* generateCommitMessage has been called.
CommitInit ==
    /\ gpc = "diff"
    /\ gDiff = <<>>
    /\ gSession = FALSE
    /\ gAnswer = NoAnswer
    /\ gCause = "none"
    /\ gMessage = <<>>
    /\ LockIdle
    /\ MergeIdle
    /\ PlanIdle
    /\ FlowIdle
    /\ BackendIdle
    /\ ExtraIdle
    /\ ConfigIdle
    /\ ResolveIdle
    /\ HashIdle
    /\ LinkIdle
    /\ CallsIdle
    /\ ApplyIdle

CommitNext ==
    \/ getDiffSummary
    \/ resolveModel
    \/ createSession
    \/ promptSession
    \/ deleteSession

CommitSpec == CommitInit /\ [][CommitNext]_vars

\* The machine before a link: any sync configuration file, and a mirror
\* that is missing or holds any copy of it.
LinkInit ==
    /\ kConfig \in {SyncConfigFile(c) : c \in ConfigFiles}
    /\ kMirror \in {AbsentFile} \cup {SyncConfigFile(m) : m \in MirrorConfigCopies}
    /\ kpc = "find"
    /\ LockIdle
    /\ MergeIdle
    /\ PlanIdle
    /\ FlowIdle
    /\ BackendIdle
    /\ ExtraIdle
    /\ ConfigIdle
    /\ ResolveIdle
    /\ HashIdle
    /\ CommitIdle
    /\ CallsIdle
    /\ ApplyIdle

LinkNext ==
    \/ LinkFind
    \/ LinkWriteConfig
    \/ LinkFetch
    \/ LinkApply
    \/ LinkRecord

LinkSpec == LinkInit /\ [][LinkNext]_vars

\* One pull or push about to start, on any vault and any local files.
CallsInit ==
    /\ dOp \in {"pull", "push"}
    /\ dpc = "version"
    /\ dDoc = 1
    /\ dIndex \in [SecretNames -> LookupStates]
    /\ dLocal \in [SecretNames -> BOOLEAN]
    /\ dCalls = 0
    /\ dRelists = [s \in SecretNames |-> 0]
    /\ LockIdle
    /\ MergeIdle
    /\ PlanIdle
    /\ FlowIdle
    /\ BackendIdle
    /\ ExtraIdle
    /\ ConfigIdle
    /\ ResolveIdle
    /\ HashIdle
    /\ CommitIdle
    /\ LinkIdle
    /\ ApplyIdle

CallsNext ==
    \/ opVersion
    \/ opItemList
    \/ lookupStep
    \/ opDocumentGetCall
    \/ opDocumentEdit
    \/ lookupDocumentWithRetry
    \/ opDocumentCreate

\* Every command returns or throws, and the function goes on from there.
CallsSpec == CallsInit /\ [][CallsNext]_vars /\ WF_vars(CallsNext)

\* Any local files, any mirror a pass on some machine left (its config
\* file possibly committed by hand), any overrides.
ApplyInit ==
    /\ yKind \in ItemKinds
    /\ ySkipAuth \in {s \in BOOLEAN : s => yKind = "authToken"}
    /\ yAllowed \in {a \in BOOLEAN : a => yKind = "extra"}
    /\ yOverrides \in {Null} \cup OverrideDocuments
    /\ yCfgLocal \in {AbsentFile} \cup {File(doc, "user") : doc \in ApplyDocuments}
    /\ yCfgRepo \in {AbsentFile}
                    \cup {File(doc, text) : doc \in ApplyDocuments,
                                            text \in {"user", "generated"}}
    /\ yOtherLocal \in {AbsentFile} \cup PlainFiles
    /\ IF yKind = "extra"
       THEN \E paths \in {<<>>, <<customConfigPath>>},
               onDisk \in SUBSET {customConfigPath} :
               LET written == writeExtraPathManifest(ExtraPlan(paths, "linux"), onDisk)
               IN  /\ yManifest = written.manifest
                   /\ yOtherRepo \in IF written.mirror = {} THEN {AbsentFile}
                                     ELSE PlainFiles
       ELSE /\ yManifest = NoManifest
            /\ yOtherRepo \in {AbsentFile} \cup PlainFiles
    /\ yPrev = ApplySnapshot
    /\ ypc = "start"
    /\ LockIdle
    /\ MergeIdle
    /\ PlanIdle
    /\ FlowIdle
    /\ BackendIdle
    /\ ExtraIdle
    /\ ConfigIdle
    /\ ResolveIdle
    /\ HashIdle
    /\ CommitIdle
    /\ LinkIdle
    /\ CallsIdle

ApplyNext == syncLocalToRepoPass \/ syncRepoToLocalPass

ApplySpec == ApplyInit /\ [][ApplyNext]_vars

(***************************************************************************)
(* Claims                                                                  *)
(***************************************************************************)

\* C1: across concurrent tryAcquireSyncLock attempts on one lock path, at
\* most one attempt at a time has acquired the lock and not yet released it.
C1_MutualExclusion ==
    Cardinality({p \in Procs : pc[p] = "held"}) <= 1

\* C10: a lone acquisition attempt (no other attempt overlaps it) that finds
\* a lock file whose recorded pid is not a live process, or whose content is
\* not a readable LockInfo, deletes the file, retries the exclusive create
\* once and succeeds; no attempt makes more than two exclusive creates.
C10_StaleLockReclaimedOnce ==
    \A p \in Procs :
        /\ opens[p] <= 2
        /\ (~concurrent[p] /\ pc[p] = "busy")
              => (existing[p].valid /\ existing[p].pid \in LivePids /\ opens[p] = 1)
        /\ (~concurrent[p] /\ pc[p] = "open" /\ attempt[p] = 1)
              => (~lockFile.exists /\ opens[p] = 1)
        /\ (~concurrent[p] /\ pc[p] = "held" /\ attempt[p] = 1)
              => opens[p] = 2

\* A lone attempt has reclaimed a lock left behind by a dead owner.
C10_Witness ==
    \E p \in Procs :
        /\ pc[p] = "held"
        /\ ~concurrent[p]
        /\ opens[p] = 2
        /\ existing[p].valid /\ existing[p].pid = DeadPid

\* A lone attempt has reclaimed a lock file with unreadable content.
C10_WitnessCorrupt ==
    \E p \in Procs :
        /\ pc[p] = "held"
        /\ ~concurrent[p]
        /\ opens[p] = 2
        /\ ~existing[p].valid

\* C2: round-trip law: for all plain-object base and overrides,
\* stripOverrides(deepMerge(base, overrides), overrides, base) equals base.
C2_RoundTrip ==
    mpc = "stripped" => mStripped = mBase

BackendOwnedPaths(platform) ==
    {normalizePath(authJsonPath, HomeDir, platform),
     normalizePath(mcpAuthJsonPath, HomeDir, platform)}

FileCopies == {"copyToLocal", "repoToLocal", "copyToMirror", "localToRepo"}
CommitsAndPushes == {"commit", "push"}
StateUpdates == {"statePull", "statePush"}
BackendCalls == {"secretsPullCall", "secretsPull", "secretsPushCall", "secretsPush"}

\* C4: in pull and startup, when the fast-forward step (its fetch and
\* checkout done) finds the local branch both ahead of and behind
\* origin/<branch>, it raises RepoDiverged without merging, the mirror's
\* working copy is as it was when the operation started, and the operation
\* applies no file, makes no commit or push and leaves the SyncState alone.
C4_DivergenceStopsFlow ==
    opKind \in {"pull", "startup"} =>
        /\ resultText = "RepoDiverged" =>
              /\ outcome = "error"
              /\ "merge" \notin effects
              /\ ahead > 0 /\ behind > 0
              /\ ahead = startRepo.ahead /\ dirty = startRepo.dirty
              /\ effects \cap (FileCopies \cup CommitsAndPushes \cup StateUpdates) = {}
              /\ syncState = startState
        /\ ("fetch" \in effects /\ startRepo.ahead > 0 /\ behind > 0
               /\ resultText # "CheckoutFailed")
              => resultText = "RepoDiverged"
        /\ "merge" \in effects => startRepo.ahead = 0

\* A startup cycle has ended on a diverged mirror.
C4_Witness ==
    /\ opKind = "startup"
    /\ fpc = "idle"
    /\ resultText = "RepoDiverged"
    /\ ahead > 0 /\ behind > 0

\* C5: in every flow the timestamps of the SyncState change only after the
\* phase they describe has succeeded: lastPull and lastRemoteUpdate after the
\* fetch-and-fast-forward step, the mirror -> local application and, when a
\* backend is configured, the secrets-backend pull; lastPush after the commit
\* and the git push.  An operation that ends in an error leaves the
\* timestamps as they were when it started.
C5_StateOnlyAfterSuccess ==
    /\ (syncState.lastPull # startState.lastPull
           \/ syncState.lastRemoteUpdate # startState.lastRemoteUpdate)
          => /\ {"fetch", "repoToLocal"} \subseteq effects
             /\ opKind # "link" => "merge" \in effects
             /\ hasSecretsBackend(opConfig) => "secretsPull" \in effects
    /\ syncState.lastPush # startState.lastPush
          => CommitsAndPushes \subseteq effects
    /\ outcome = "error"
          => /\ syncState.lastPull = startState.lastPull
             /\ syncState.lastRemoteUpdate = startState.lastRemoteUpdate
             /\ syncState.lastPush = startState.lastPush

\* A pull has fast-forwarded and applied the mirror, and then failed in the
\* secrets-backend pull.
C5_Witness ==
    /\ opKind = "pull"
    /\ fpc = "idle"
    /\ resultText = "SecretsPullFailed"
    /\ {"merge", "repoToLocal"} \subseteq effects
    /\ syncState.lastPull = startState.lastPull

\* C6: with includeSecrets enabled, startup, pull, push and init copy no file
\* between local and mirror and make no commit or push unless the remote was
\* verified private earlier in the operation; when the remote is not private
\* or was not verified the operation ends in an error.
C6_SecretsNeedPrivateRemote ==
    (opKind \in {"startup", "pull", "push", "init"} /\ opConfig.includeSecrets) =>
        /\ effects \cap (FileCopies \cup CommitsAndPushes) # {}
              => "verifiedPrivate" \in effects
        /\ (fpc = "idle" /\ "verifiedPrivate" \notin effects) => outcome = "error"
        /\ (fpc = "idle" /\ ~remotePrivate) => outcome = "error"

\* An operation with includeSecrets has ended against a public remote.
C6_Witness ==
    /\ opKind \in {"startup", "pull", "push", "init"}
    /\ opConfig.includeSecrets
    /\ ~remotePrivate
    /\ fpc = "idle"
    /\ resultText = "RepoPrivateRequired"

\* C7: in the startup flow, when the mirror is not behind and the
\* local -> mirror pass left the mirror dirty, the flow commits, pushes and
\* records lastPush; it never calls the secrets backend's push, and a failed
\* commit or push ends the cycle with that error.
C7_StartupPushesWithoutBackendPush ==
    opKind = "startup" =>
        /\ "secretsPushCall" \notin effects
        /\ ~secretsFailure
        /\ "localToRepo" \in effects => "merge" \notin effects
        /\ (fpc = "idle" /\ "localToRepo" \in effects /\ dirty)
              => (outcome = "error" /\ resultText = "CommitFailed")
        /\ (fpc = "idle" /\ "commit" \in effects)
              => \/ /\ outcome = "ok"
                    /\ resultText = "Pushed"
                    /\ {"push", "statePush"} \subseteq effects
                 \/ /\ outcome = "error"
                    /\ resultText = "PushFailed"
                    /\ effects \cap {"push", "statePush"} = {}

\* A startup cycle with a secrets backend configured and local secrets the
\* backend has not seen has committed and pushed.
C7_Witness ==
    /\ opKind = "startup"
    /\ fpc = "idle"
    /\ resultText = "Pushed"
    /\ hasSecretsBackend(opConfig)
    /\ syncState.lastSecretsHash # localSecretsHash

\* C7 as stated: a startup cycle that committed and pushed has gone on to
\* push the secrets backend.
C7_StartupPushesSecretsBackend ==
    (opKind = "startup" /\ fpc = "idle" /\ "push" \in effects
        /\ hasSecretsBackend(opConfig))
        => "secretsPushCall" \in effects

\* C8: in the push command, once commit and git push have succeeded a
\* failing secrets-backend push does not make the command fail: it returns
\* its success message with the failure appended, lastPush is recorded and
\* the lock is released.
C8_BackendFailureAfterPushIsSoft ==
    opKind = "push" =>
        /\ secretsFailure
              => /\ CommitsAndPushes \subseteq effects
                 /\ outcome # "error"
        /\ (secretsFailure /\ fpc = "idle")
              => /\ outcome = "ok"
                 /\ resultText = "PushedSecretsFailed"
                 /\ "statePush" \in effects
                 /\ ~lockHeld
        /\ ("push" \in effects /\ fpc = "idle") => outcome = "ok"

\* A push command has ended after its secrets-backend push failed.
C8_Witness ==
    /\ opKind = "push"
    /\ fpc = "idle"
    /\ secretsFailure
    /\ "secretsPushCall" \in effects
    /\ "secretsPush" \notin effects

\* What ends a startup cycle before it looks at the mirror's status.
StopsBeforeDirtyCheck ==
    {"LockBusy", "ConfigLoadFailed", "NotConfigured", "ConfigInvalid",
     "RepoVisibility", "RepoPrivateRequired", "AuthFilesTracked"}

\* C9: a startup cycle run on a mirror with uncommitted changes does no
\* fetch, fast-forward, file copy, commit, push, secrets-backend call or
\* SyncState update; when it reaches its check of the mirror's status it
\* ends there with a warning, not an error.
C9_DirtyMirrorEndsStartup ==
    (opKind = "startup" /\ startRepo.dirty) =>
        /\ effects \cap ({"fetch", "merge"} \cup FileCopies \cup CommitsAndPushes
                            \cup BackendCalls \cup StateUpdates) = {}
        /\ syncState = startState
        /\ dirty
        /\ resultText = "UncommittedChanges" => outcome = "warning"
        /\ fpc = "idle"
              => resultText \in StopsBeforeDirtyCheck \cup {"UncommittedChanges"}

\* A startup cycle has ended with the warning about uncommitted changes.
C9_Witness ==
    /\ opKind = "startup"
    /\ fpc = "idle"
    /\ startRepo.dirty
    /\ outcome = "warning"
    /\ resultText = "UncommittedChanges"

\* The file at lockPath names a live process as the owner of the lock.
LiveOwned(f) == f.exists /\ f.content = "info" /\ isProcessAlive(f.pid)

\* C11: while the lock file names a live owner, every step of another
\* caller's tryAcquireSyncLock leaves the file as it is and leads to the busy
\* result carrying the owner's LockInfo; a foreground command (runExclusive)
\* then ends with an error made from that LockInfo, startupSync (skipIfBusy)
\* returns without one, and in neither case is the body run.
C11_BusyLockLeftUntouched ==
    /\ [](/\ \A command \in ForegroundCommands : WrapperOf(command) = "runExclusive"
          /\ WrapperOf("startupSync") = "skipIfBusy"
          /\ callResult \in {"LockBusyError", "skipped"} => ~bodyRan)
    /\ [][\A p \in Procs :
            (LiveOwned(lockFile) /\ lockFile.pid # p /\ pc'[p] # pc[p]) =>
                /\ pc[p] = "idle" => (pc'[p] = "open" /\ lockFile' = lockFile)
                /\ pc[p] = "open" => (pc'[p] = "read" /\ lockFile' = lockFile)
                /\ pc[p] = "read" =>
                      /\ pc'[p] = "probe"
                      /\ existing'[p] = InfoOf(lockFile.pid)
                      /\ lockFile' = lockFile
                /\ (pc[p] = "probe" /\ existing[p] = InfoOf(lockFile.pid)) =>
                      (pc'[p] = "busy" /\ lockFile' = lockFile)
                /\ (pc[p] = "busy" /\ existing[p] = InfoOf(lockFile.pid)) =>
                      /\ pc'[p] = "idle"
                      /\ lockFile' = lockFile
                      /\ existing'[p] = InfoOf(lockFile.pid)
                      /\ p = Caller =>
                            /\ ~bodyRan'
                            /\ callResult' = IF wrapper = "runExclusive"
                                             THEN "LockBusyError" ELSE "skipped"
       ]_vars

\* A foreground command has ended with the busy error while another process
\* of the plugin held the lock, and the lock file still names that process.
C11_Witness ==
    \E q \in Procs \ {Caller} :
        /\ pc[Caller] = "idle"
        /\ wrapper = "runExclusive"
        /\ callResult = "LockBusyError"
        /\ ~bodyRan
        /\ pc[q] = "held"
        /\ lockFile = FileOf(q, "info", q)
        /\ existing[Caller] = InfoOf(q)

\* C12: once the body of a withSyncLock call has returned or thrown, the
\* only thing the call does is release: close, then delete the file at
\* lockPath.  No call has ended while the file it created is still there,
\* and an attempt that finds no file at lockPath creates it and acquires.
C12_LockReleasedAfterBody ==
    /\ [](/\ \A p \in Procs :
                pc[p] = "idle" => ~(lockFile.exists /\ lockFile.creator = p)
          /\ pc[Caller] = "releasing" => callResult \in {"returned", "threw"}
          /\ (pc[Caller] = "idle" /\ bodyRan) => callResult \in {"returned", "threw"})
    /\ [][\A p \in Procs :
            pc'[p] # pc[p] =>
                /\ (pc[p] = "held" /\ p = Caller) =>
                      (bodyRan /\ pc'[p] = "releasing")
                /\ pc[p] = "releasing" => (pc'[p] = "idle" /\ ~lockFile'.exists)
                /\ (pc[p] = "open" /\ ~lockFile.exists) =>
                      (pc'[p] = "write" /\ lockFile'.exists /\ lockFile'.creator = p)
                /\ pc[p] = "write" => pc'[p] = "held"
       ]_vars

\* A call whose body threw has ended with the lock file gone, and a later
\* attempt by another process has acquired the lock with its first
\* exclusive create.
C12_Witness ==
    \E p \in Procs \ {Caller} :
        /\ pc[Caller] = "idle" /\ callResult = "threw"
        /\ pc[p] = "held" /\ opens[p] = 1 /\ ~concurrent[p]
        /\ lockFile = FileOf(p, "info", p)

\* The call has looked secret s up in the index it listed.
LookedUp(s) == bLookup[s] # NoLookup

\* Number of documents of the listed index whose title matches the name
\* configured for secret s.
IndexMatches(s) == Matches(bIndex, normalizeDocumentName(bConfig[s]))

\* What the call did for secret s.
LoggedFor(s) == {e \in bLog : e.secret = s}

\* C13: when the listed index holds more than one document matching the
\* name of a secret, the pull or push that comes to that secret fails with
\* an ambiguity error that reports the number of matches, the local file is
\* not replaced and no document is created or edited for it.
C13_AmbiguousNameFailsWithCount ==
    \A s \in SecretNames :
        (bOp \in {"pull", "push"} /\ IndexMatches(s) > 1 /\ LookedUp(s)) =>
            /\ bpc = "idle"
            /\ bError.kind = "ambiguous"
            /\ bError.documentName = bConfig[s]
            /\ "count" \in DOMAIN bError
            /\ bError.count = IndexMatches(s)
            /\ LoggedFor(s) = {}

\* The kinds of thing the call did for secret s.
DoneFor(s) == {e.kind : e \in LoggedFor(s)}

\* The call raised its error while handling secret s.
FailedAt(s) ==
    /\ bError # NoError
    /\ LookedUp(s)
    /\ \A i, j \in 1 .. Len(Secrets) :
          (Secrets[i] = s /\ j > i) => ~LookedUp(Secrets[j])

\* C14: for each secret the call comes to: with no matching document in the
\* listed index, pull leaves the local file alone and raises nothing and push
\* creates a document and never edits; with exactly one match pull replaces
\* the local file and push edits the document (unless the op command fails,
\* or another machine changed the vault after the listing); push does nothing
\* to the backend for a secret whose local file does not exist.
C14_LookupDecidesPullAndPush ==
    \A s \in SecretNames :
        /\ (bOp = "pull" /\ LookedUp(s) /\ IndexMatches(s) = 0) =>
              (DoneFor(s) = {} /\ ~FailedAt(s))
        /\ (bOp = "pull" /\ LookedUp(s) /\ IndexMatches(s) = 1) =>
              /\ DoneFor(s) \subseteq {"replaced"}
              /\ (~FailedAt(s) /\ bChanges = 0)
                    => (DoneFor(s) = {"replaced"} /\ bLocal[s])
        /\ (bOp = "push" /\ ~bLocal[s]) =>
              (DoneFor(s) = {} /\ ~FailedAt(s))
        /\ (bOp = "push" /\ bLocal[s] /\ LookedUp(s) /\ IndexMatches(s) = 0) =>
              /\ DoneFor(s) \subseteq {"created"}
              /\ ~FailedAt(s) => DoneFor(s) = {"created"}
        /\ (bOp = "push" /\ bLocal[s] /\ LookedUp(s) /\ IndexMatches(s) = 1) =>
              /\ Cardinality(DoneFor(s)) <= 1
              /\ DoneFor(s) \subseteq {"edited", "created"}
              /\ "created" \in DoneFor(s) => bChanges > 0
              /\ ~FailedAt(s) => DoneFor(s) # {}
              /\ (~FailedAt(s) /\ bChanges = 0) => DoneFor(s) = {"edited"}
        /\ bOp = "pull" => DoneFor(s) \subseteq {"replaced"}
        /\ bOp = "push" => "replaced" \notin DoneFor(s)

\* A push has created the document of one secret, which the vault did not
\* have, and edited the one of the other.
C14_Witness ==
    /\ bOp = "push"
    /\ bpc = "idle"
    /\ bError = NoError
    /\ bChanges = 0
    /\ bLocal["authJson"] /\ bLocal["mcpAuthJson"]
    /\ IndexMatches("authJson") = 0
    /\ IndexMatches("mcpAuthJson") = 1
    /\ DoneFor("authJson") = {"created"}
    /\ DoneFor("mcpAuthJson") = {"edited"}

\* Equality of two of the model's strings when case is ignored.
EqualIgnoringCase(a, b) == a = b \/ {a, b} = {"a.json", "A.JSON"}

\* A 1password descriptor without its vault or without one of its document
\* names, or whose two document names are equal when case is ignored.
UnusableDescriptor(d) ==
    /\ d.type = "1password"
    /\ \/ d.vault = ""
       \/ d.authJson = ""
       \/ d.mcpAuthJson = ""
       \/ EqualIgnoringCase(d.authJson, d.mcpAuthJson)

\* C15: an operation that loads a configuration whose secrets-backend
\* descriptor lacks its vault or a document name, or gives authJson and
\* mcpAuthJson names that are equal when case is ignored, ends with the
\* invalid-configuration error right after loading it: it runs no later step
\* (no git, gh or op command, no file copy), and leaves the mirror and the
\* SyncState as they were.
C15_InvalidDescriptorRejectedFirst ==
    (/\ opKind \in {"startup", "pull", "push"}
     /\ configFile.state = "ok"
     /\ UnusableDescriptor(configFile.secretsBackend)
     /\ resultText # "LockBusy") =>
        /\ fpc \in {"config", "release", "idle"}
        /\ effects = {}
        /\ RepoSnapshot = startRepo
        /\ syncState = startState
        /\ fpc # "config" => (outcome = "error" /\ resultText = "ConfigInvalid")

\* A pull has been rejected for a descriptor whose two document names differ
\* only in case.
C15_Witness ==
    /\ opKind = "pull"
    /\ fpc = "idle"
    /\ outcome = "error"
    /\ resultText = "ConfigInvalid"
    /\ configFile.secretsBackend = Descriptor("1password", "Personal", "A.JSON", "a.json")

\* C16: in startup, pull and push run with a 1password secrets backend
\* configured, once the mirror tracks data/auth.json or data/mcp-auth.json the
\* operation does no fetch, fast-forward, file copy, commit, push,
\* secrets-backend call or SyncState update: it ends with an error, which is
\* the tracked-auth-files error unless the private-remote check before it
\* already failed.
C16_TrackedAuthFilesAbort ==
    (/\ opKind \in {"startup", "pull", "push"}
     /\ fpc \notin {"config", "clone"}
     /\ resultText # "LockBusy"
     /\ hasSecretsBackend(opConfig)
     /\ authTracked) =>
        /\ fpc \in {"policy", "tracked", "release", "idle"}
        /\ effects \cap ({"fetch", "merge"} \cup FileCopies \cup CommitsAndPushes
                            \cup BackendCalls \cup StateUpdates) = {}
        /\ syncState = startState
        /\ fpc \in {"release", "idle"} =>
              /\ outcome = "error"
              /\ resultText \in {"RepoVisibility", "RepoPrivateRequired",
                                 "AuthFilesTracked"}
              /\ ~RequiresPrivateRemote(opConfig) => resultText = "AuthFilesTracked"

\* A push has ended with the tracked-auth-files error on a mirror that was
\* already cloned.
C16_Witness ==
    /\ opKind = "push"
    /\ fpc = "idle"
    /\ hasSecretsBackend(opConfig)
    /\ authTracked
    /\ "clone" \notin effects
    /\ outcome = "error"
    /\ resultText = "AuthFilesTracked"

\* C17: a plan built from a configuration with includeSecrets off has no item
\* marked secret and an empty extra-secrets allow-list, whatever
\* includeSessions, includePromptStash, the secrets backend and
\* extraSecretPaths are.
C17_NoSecretsWhenDisabled ==
    (ppc \in {"planned", "copied"} /\ ~pConfig.includeSecrets) =>
        /\ \A item \in Range(pPlan.items) : ~item.isSecret
        /\ pPlan.extraSecrets.allowlist = <<>>
        /\ pPlan.extraSecrets.entries = <<>>

\* A plan was built with includeSecrets off while sessions, the prompt stash
\* and a backend were on and a private key was listed as an extra secret.
C17_Witness ==
    /\ ppc = "planned"
    /\ ~pConfig.includeSecrets
    /\ pConfig.includeSessions
    /\ pConfig.includePromptStash
    /\ hasSecretsBackend(pConfig)
    /\ pConfig.extraSecretPaths = <<sshKeyPath>>
    /\ pPlan.items # <<>>

\* The items of the plan marked both secret and auth-token.
SecretAuthTokens ==
    {item \in Range(pPlan.items) : item.isSecret /\ item.isAuthToken}

\* C18: a plan built with includeSecrets on and no secrets backend marks
\* exactly two items, auth.json and mcp-auth.json, as both secret and
\* auth-token, whatever the session and prompt-stash flags are.
C18_AuthItemsSecretAndAuthToken ==
    (/\ ppc \in {"planned", "copied"}
     /\ pConfig.includeSecrets
     /\ ~hasSecretsBackend(pConfig)) =>
        /\ Cardinality(SecretAuthTokens) = 2
        /\ {item.localPath : item \in SecretAuthTokens}
               = {authJsonPath, mcpAuthJsonPath}

\* The current allow-list: the configured extra paths, normalized.
CurrentAllowlist ==
    {normalizePath(xPaths[i], HomeDir, xPlatform) : i \in DOMAIN xPaths}

\* C19: a mirror -> local pass copies a manifest entry to local only if the
\* entry's source path, normalized, is in the current allow-list: an entry
\* for a path that an edit of the configuration dropped from the allow-list
\* is not copied while the manifest still lists it, and every file the pass
\* writes lies at or below a path of the current allow-list.
C19_OnlyAllowedEntriesApplied ==
    xpc = "applied" =>
        /\ \A entry \in xApplied :
              normalizePath(entry.sourcePath, HomeDir, xPlatform) \in CurrentAllowlist
        /\ \A entry \in Range(xManifest.entries) :
              entry.sourcePath \in xRemoved => entry \notin xApplied
        /\ xWritten \subseteq UNION {FilesCopiedFrom(allowed, xPlatform) :
                                        allowed \in CurrentAllowlist}

\* The private key was dropped from a configuration that still lists another
\* path; the manifest and the mirror still hold the key, and a mirror ->
\* local pass has run without copying it.
C19_Witness ==
    /\ xpc = "applied"
    /\ xPaths = <<customConfigPath>>
    /\ sshKeyPath \in xRemoved
    /\ \E entry \in Range(xManifest.entries) :
          /\ entry.sourcePath = sshKeyPath
          /\ Join(repoRoot, entry.repoPath) \in xMirror
    /\ xApplied = {}
    /\ xWritten = {}

\* C20 as stated: after local -> mirror and then mirror -> local with the
\* same overrides, every local config file is exactly what it was before.
C20_RoundTripReproducesLocal ==
    cpc = "done" => cLocal = cOriginal

\* The local document already carries every override.
CarriesOverrides(doc, overrides) ==
    overrides = Null \/ deepMerge(doc, overrides) = doc

\* C20: after local -> mirror and then mirror -> local with the same
\* overrides, a local config file that was missing is still missing, and one
\* that carried every override parses to the document it held before.
C20_RoundTripKeepsMergedLocal ==
    cpc = "done" =>
        /\ ~pathExists(cOriginal) => ~pathExists(cLocal)
        /\ (pathExists(cOriginal)
              /\ CarriesOverrides(parseJsonc(cOriginal), cOverrides)) =>
                 /\ pathExists(cLocal)
                 /\ parseJsonc(cLocal) = parseJsonc(cOriginal)

\* Both passes ran over a local file that carries an override and that the
\* user edited on another key since the mirror's copy was written.
C20_Witness ==
    /\ cpc = "done"
    /\ cOverrides = Obj([k \in {"a"} |-> Scalar("one")])
    /\ parseJsonc(cOriginal) = Obj([k \in {"a", "b"} |-> Scalar("one")])
    /\ parseJsonc(cRepo) = Obj([k \in {"b"} |-> Scalar("one")])
    /\ parseJsonc(cLocal) = parseJsonc(cOriginal)

\* The AI answered with a JSON object whose action is commit and whose
\* message is a non-empty text.
ExplicitCommit(ai) ==
    /\ ai.step = "answered"
    /\ ai.text.kind = "object"
    /\ ai.text.action = "commit"
    /\ ai.text.message = "text"

\* The AI answered with a JSON object whose action is discard.
ExplicitDiscard(ai) ==
    /\ ai.step = "answered"
    /\ ai.text.kind = "object"
    /\ ai.text.action = "discard"

\* C21: in resolve, a commit is made only on an AI answer that is a commit
\* decision with a message, and a hard reset or clean only on one that is a
\* discard decision; any other answer, and no answer at all, ends in the
\* manual outcome with the mirror as it was and no git command that changes
\* it.
C21_ManualChangesNothing ==
    /\ "commit" \in rsLog => ExplicitCommit(rsAi)
    /\ rsLog \cap {"resetHard", "clean"} # {} => ExplicitDiscard(rsAi)
    /\ (rsAi # NoAi /\ ~ExplicitCommit(rsAi) /\ ~ExplicitDiscard(rsAi)) =>
          /\ rsDecision.action = "manual"
          /\ rspc = "done" => rsResult = "Manual"
    /\ rsResult = "Manual" =>
          /\ ResolveMirror = rsStart
          /\ rsLog = {}

\* Resolve ended in the manual outcome on a commit answer that has no
\* message, with the mirror's changes still there.
C21_Witness ==
    /\ rspc = "done"
    /\ rsResult = "Manual"
    /\ rsAi.step = "answered"
    /\ rsAi.text.kind = "object"
    /\ rsAi.text.action = "commit"
    /\ rsAi.text.message = "empty"
    /\ rsModified
    /\ rsUntracked

\* The failures of the backend itself: the CLI is missing, the listing
\* fails, a name is ambiguous, the download fails.
BackendFailures == {"OpNotFound", "ListFailed", "ambiguous", "DownloadFailed"}

\* C22: when a pull fails because the CLI is missing, the listing fails, a
\* name is ambiguous or a download fails, the local file of the document it
\* failed at, and of every document it had not come to, is as it was before
\* the call; and a local file is replaced only once its document has been
\* downloaded completely into the temporary path.
C22_FailedPullKeepsTarget ==
    bOp = "pull" =>
        \A s \in SecretNames :
            /\ bTarget[s] # "previous" => bTemp[s]
            /\ (bError.kind \in BackendFailures /\ (FailedAt(s) \/ ~LookedUp(s))) =>
                  /\ bTarget[s] = "previous"
                  /\ LoggedFor(s) = {}
            /\ ~LookedUp(s) => bTarget[s] = "previous"

\* A pull replaced auth.json and then failed at the download of
\* mcp-auth.json, which an existing local file holds.
C22_Witness ==
    /\ bOp = "pull"
    /\ bpc = "idle"
    /\ bError.kind = "DownloadFailed"
    /\ FailedAt("mcpAuthJson")
    /\ bLocal["mcpAuthJson"]
    /\ bTarget["mcpAuthJson"] = "previous"
    /\ bTarget["authJson"] = "downloaded"

\* The overrides document is an object with at least one key.
NonEmptyOverrides == cOverrides # Null /\ ObjectKeys(cOverrides) # {}

\* C23: after a mirror -> local pass with a non-empty overrides document, a
\* local config file whose copy exists in the mirror parses to
\* deepMerge(mirror content, overrides); one without a copy in the mirror
\* holds its former content with the overrides merged in; and the pass
\* leaves the overrides document as it was.
C23_LocalIsMirrorPlusOverrides ==
    /\ []((cpc \in {"applied", "done"} /\ NonEmptyOverrides) =>
            /\ pathExists(cRepo) =>
                  /\ pathExists(cLocal)
                  /\ parseJsonc(cLocal) = deepMerge(parseJsonc(cRepo), cOverrides)
            /\ (cpc = "applied" /\ ~pathExists(cRepo)) =>
                  IF pathExists(cOriginal)
                  THEN parseJsonc(cLocal) = deepMerge(parseJsonc(cOriginal), cOverrides)
                  ELSE ~pathExists(cLocal))
    /\ [][cpc' \in {"applied", "done"} => cOverrides' = cOverrides]_vars

\* A mirror -> local pass has put the mirror's content under an override
\* that replaces one of its values, over a local file that held neither.
C23_Witness ==
    /\ cpc = "applied"
    /\ cOverrides = Obj([k \in {"a"} |-> Scalar("one")])
    /\ parseJsonc(cRepo) = Obj([k \in {"a", "b"} |-> Scalar("zero")])
    /\ parseJsonc(cOriginal) = Obj([k \in {"b"} |-> Scalar("null")])
    /\ parseJsonc(cLocal) = Obj([k \in {"a", "b"} |->
                                   IF k = "a" THEN Scalar("one") ELSE Scalar("zero")])

\* A secrets push is about to run on files that are as the last successful
\* backend pull or push left them.
PushAfterSyncUnchanged ==
    /\ hpc = "secretsPush"
    /\ hSynced # NoHash
    /\ hSynced = hashFiles(hFiles)

IsSubjectLine(text) ==
    /\ text # <<>>
    /\ Len(text) <= SubjectLimit
    /\ \A i \in 1 .. Len(text) : text[i] # "\n"
    /\ Head(text) \notin Whitespace
    /\ text[Len(text)] \notin Whitespace

\* C25: commit-message generation always ends by returning a non-empty
\* message; the message is the dated default whenever the diff summary is
\* empty, no model is available, the session cannot be created, the prompt
\* fails, or the response holds no text or only quotes and whitespace; any
\* other message is one trimmed line of the response within the limit.
C25_MessageNeverEmpty ==
    /\ gpc \in {"off", "diff", "model", "create", "prompt", "finally", "returned"}
    /\ gpc \in {"finally", "returned"} =>
          /\ gMessage # <<>>
          /\ gCause # "none" => gMessage = fallback
          /\ gCause = "none" =>
                /\ gAnswer.kind = "text"
                /\ IsSubjectLine(gMessage)
          /\ gDiff = <<>> => gCause = "noDiff"
          /\ (gpc = "returned" /\ gDiff # <<>> /\ gAnswer = NoAnswer)
                => gCause \in {"noModel", "noSession"}
          /\ gAnswer.kind \in {"throws", "error", "noText"} => gMessage = fallback
          /\ (gAnswer.kind = "text" /\ trimText(gAnswer.text) = <<>>)
                => gMessage = fallback

\* The AI answered with quotes and whitespace only, and the generation
\* returned the dated default after the session could not be deleted.
C25_Witness ==
    /\ gpc = "returned"
    /\ gAnswer = [kind |-> "text", text |-> <<" ", "\"", "\"">>]
    /\ gCause = "emptyMessage"
    /\ gMessage = fallback
    /\ gSession

\* The AI answered with a text longer than the limit and the generation
\* returned its first SubjectLimit characters, trimmed.
C25_WitnessCut ==
    /\ gpc = "returned"
    /\ Len(gAnswer.text) > SubjectLimit
    /\ Len(gMessage) = SubjectLimit - 1
    /\ gCause = "none"

\* C26: while the mirror holds fast-forwarded commits that no mirror -> local
\* pass has applied, no operation runs a local -> mirror pass, and none
\* commits and pushes what such a pass copied.
C26_FastForwardAppliedBeforeLocalToRepo ==
    unapplied =>
        /\ "copyToMirror" \notin effects
        /\ ~({"localToRepo", "commit", "push"} \subseteq effects)

\* A later startup or push has copied the local files over a fast-forwarded
\* mirror that was never applied, committed and pushed.
StaleLocalPushed ==
    /\ unapplied
    /\ opKind \in {"startup", "push"}
    /\ {"localToRepo", "commit", "push"} \subseteq effects
    /\ "merge" \notin effects

\* A push or a startup cycle has run its local -> mirror pass on a mirror
\* that holds a commit the remote lacks, and the pass changed nothing.
NoChangeSyncOnAheadMirror ==
    /\ opKind \in {"push", "startup"}
    /\ fpc # "idle"
    /\ "localToRepo" \in effects
    /\ "commit" \notin effects
    /\ ~dirty
    /\ ahead > 0
    /\ startRepo.ahead > 0

\* C27: a push or a startup cycle that finds no local change on a mirror
\* holding a commit whose git push failed earlier goes on to push that
\* commit: the mirror comes to be level with the remote.
C27_UnpushedCommitPushedLater ==
    NoChangeSyncOnAheadMirror ~> (ahead = 0)

\* After a commit whose git push failed, a second operation, a push or a
\* startup without local changes, has ended normally with the commit still
\* unpushed.
CommitLeftUnpushed ==
    /\ clock = 2
    /\ fpc = "idle"
    /\ opKind \in {"push", "startup"}
    /\ outcome = "ok"
    /\ startRepo.ahead = 1
    /\ startState.lastPush = 0
    /\ "localToRepo" \in effects
    /\ "push" \notin effects
    /\ ahead = 1

\* C28: a push command that started on a clean mirror that was not ahead of
\* the remote never leaves the mirror with a commit the remote lacks while
\* the remote has a commit the mirror lacks.
C28_PushNeverDiverges ==
    (opKind = "push" /\ ~startRepo.dirty /\ startRepo.ahead = 0) =>
        ~(ahead > 0 /\ behind + remoteNew > 0)

\* A push command that started on a clean mirror level with what it had
\* fetched has ended with its commit refused by the remote: the mirror is
\* one commit ahead and one behind.
PushLeftMirrorDiverged ==
    /\ opKind = "push"
    /\ fpc = "idle"
    /\ startRepo = [dirty |-> FALSE, ahead |-> 0, behind |-> 0]
    /\ resultText = "PushFailed"
    /\ ahead = 1
    /\ remoteNew = 1

\* The effect is made by the step being taken.
Adds(effect) == effect \in effects' /\ effect \notin effects

\* C29: in a startup cycle or a pull command that fast-forwards the mirror
\* (it was behind only), the mirror -> local application comes after the
\* fast-forward, the secrets-backend pull after the application, and the
\* update of lastPull after both (after the application alone when no
\* backend is configured); the cycle makes no local -> mirror pass, commit
\* or git push; and when it ends normally all of these steps were taken.
C29_FastForwardCycleOrder ==
    /\ [][opKind' \in {"startup", "pull"} =>
            /\ Adds("merge") => effects \cap {"copyToLocal", "repoToLocal",
                                   "secretsPullCall", "secretsPull", "statePull"} = {}
            /\ Adds("copyToLocal") =>
                  ("merge" \in effects /\ effects \cap BackendCalls = {}
                      /\ "statePull" \notin effects)
            /\ Adds("secretsPullCall") =>
                  ({"merge", "repoToLocal"} \subseteq effects
                      /\ "statePull" \notin effects)
            /\ Adds("statePull") =>
                  /\ {"merge", "repoToLocal"} \subseteq effects
                  /\ hasSecretsBackend(opConfig) => "secretsPull" \in effects]_vars
    /\ []((opKind \in {"startup", "pull"} /\ "merge" \in effects) =>
            /\ effects \cap {"copyToMirror", "localToRepo", "commit", "push",
                             "secretsPushCall", "statePush"} = {}
            /\ (fpc = "idle" /\ outcome = "ok") =>
                  /\ {"repoToLocal", "statePull"} \subseteq effects
                  /\ syncState.lastPull = clock)

\* A startup cycle with a secrets backend configured has fast-forwarded,
\* applied, pulled the backend and recorded the pull.
C29_Witness ==
    /\ opKind = "startup"
    /\ fpc = "idle"
    /\ outcome = "ok"
    /\ hasSecretsBackend(opConfig)
    /\ {"merge", "repoToLocal", "secretsPull", "statePull"} \subseteq effects
    /\ syncState.lastPull = clock
    /\ behind = 0

\* C30: when a holder's release removes the file at lockPath, the file, if
\* there is one, is the file that holder's own acquisition created.
C30_ReleaseRemovesOwnFile ==
    [][\A p \in Procs :
          (pc[p] = "releasing" /\ pc'[p] = "idle" /\ lockFile.exists)
              => lockFile.creator = p]_vars

\* A release has removed the lock file of another process that holds the
\* lock.
ReleaseRemovedOthersLock ==
    \E p, q \in Procs :
        /\ p # q
        /\ pc[p] = "idle"
        /\ pc[q] = "held"
        /\ opens[p] > 0
        /\ ~lockFile.exists

\* The file at lockPath holds a complete LockInfo whose pid is a live process.
HoldsLiveLockInfo(f) == f.exists /\ f.content = "info" /\ isProcessAlive(f.pid)

\* C31: a lock file that holds a complete LockInfo of a live process is not
\* removed or replaced by a step of an acquisition attempt; the only step
\* that changes it is the rm of the release of the process it names.
C31_LiveLockNeverTaken ==
    [][HoldsLiveLockInfo(lockFile) =>
          \/ lockFile' = lockFile
          \/ \E p \in Procs : /\ pc[p] = "releasing"
                              /\ pc'[p] = "idle"
                              /\ lockFile.pid = p]_vars

\* The same for the rm of an acquisition attempt alone.
C31_AttemptNeverRemovesLiveLock ==
    [][\A p \in Procs :
          (pc[p] = "rm" /\ pc'[p] = "open") => ~HoldsLiveLockInfo(lockFile)]_vars

\* A pull or a startup cycle has fetched and found no new remote commit,
\* on a mirror whose last fast-forward was never applied to the local files.
FetchedNothingOnUnappliedMirror ==
    /\ unapplied
    /\ opKind \in {"pull", "startup"}
    /\ fpc # "idle"
    /\ "fetch" \in effects
    /\ "merge" \notin effects
    /\ behind = 0

\* C32: a pull or a startup cycle that finds no new remote commit on a
\* mirror whose fast-forward was left unapplied by a failed operation goes
\* on to apply the mirror to the local files.
C32_MissingApplicationDoneLater ==
    FetchedNothingOnUnappliedMirror ~> ~unapplied

\* After a fast-forward whose application failed, a pull has ended with
\* "already up to date": nothing was applied and lastPull is not recorded.
ApplicationNeverDone ==
    /\ unapplied
    /\ clock = 2
    /\ opKind = "pull"
    /\ fpc = "idle"
    /\ outcome = "ok"
    /\ resultText = "AlreadyUpToDate"
    /\ syncState.lastPull = 0

\* C33: the sync configuration file is written with includeSecrets = true
\* only after the remote was verified private in the same operation; an
\* init whose privacy check failed has written no such configuration.
C33_SecretsConfigOnlyAfterPrivacyCheck ==
    [][(configFile' # configFile /\ configFile'.state = "ok"
            /\ configFile'.includeSecrets)
          => "verifiedPrivate" \in effects]_vars

\* An init with includeSecrets has ended because the remote is not
\* private, and the configuration file it wrote enables secrets.
InitLeftSecretsEnabled ==
    /\ opKind = "init"
    /\ fpc = "idle"
    /\ resultText = "RepoPrivateRequired"
    /\ "verifiedPrivate" \notin effects
    /\ configFile = WrittenConfig(opConfig)
    /\ configFile.includeSecrets

\* C34 as stated: after a successful link the sync configuration file is
\* the one link wrote, whatever the mirror contains.
C34_LinkedConfigIsWritten ==
    kpc = "linked" => parseJsonc(kConfig) = WrittenConfig(NoOpConfig)

\* C34: after a successful link the sync configuration file is the
\* mirror's copy of it when the mirror has one, and the one link wrote
\* (every include flag false) when it has none.
C34_LinkedConfigIsMirrorCopy ==
    kpc \in {"state", "linked"} =>
        kConfig = IF pathExists(kMirror) THEN kMirror ELSE LinkedConfig

\* A link has ended on a mirror whose copy of the sync configuration
\* enables secrets: the local file now enables them.
C34_Witness ==
    /\ kpc = "linked"
    /\ pathExists(kMirror)
    /\ parseJsonc(kMirror).includeSecrets
    /\ kConfig = kMirror

\* The op commands a pull or push can run: the version check, the listing,
\* and per document one download and one listing (pull) or one edit, one
\* listing and one create (push).
CallBound(op) == 2 + Len(Secrets) * (IF op = "pull" THEN 2 ELSE 3)

\* C35: the vault is listed again at most once per document, nothing else
\* is retried, so a backend pull or push runs a bounded number of op
\* commands and then ends.
C35_BoundedCallsThenEnds ==
    /\ [](/\ \A s \in SecretNames : dRelists[s] <= 1
          /\ dCalls <= CallBound(dOp))
    /\ <>(dpc \in {"done", "failed"})

\* A push has ended after listing the vault again for both documents (a
\* failed edit, a document gone, a create).
C35_Witness ==
    /\ dpc = "done"
    /\ dOp = "push"
    /\ \A s \in SecretNames : dRelists[s] = 1
    /\ dCalls = CallBound("push")

\* C36: a pull or push command started on a mirror with uncommitted changes
\* ends with an error, and does no fetch, fast-forward, file copy, commit,
\* git push, secrets-backend call or SyncState update.
C36_DirtyMirrorFailsCommand ==
    (opKind \in {"pull", "push"} /\ startRepo.dirty) =>
        /\ effects \cap ({"fetch", "merge"} \cup FileCopies \cup CommitsAndPushes
                            \cup BackendCalls \cup StateUpdates) = {}
        /\ syncState = startState
        /\ dirty
        /\ fpc = "idle" => outcome = "error"

\* A push command has ended with the error about uncommitted changes.
C36_Witness ==
    /\ opKind = "push"
    /\ fpc = "idle"
    /\ startRepo.dirty
    /\ outcome = "error"
    /\ resultText = "UncommittedChanges"

\* The overrides syncRepoToLocal applies: a non-empty object.
HasOverrideKeys == yOverrides # Null /\ ObjectKeys(yOverrides) # {}

\* The manifest lists the extra path and this machine allows it.
ExtraEntryAllowed == yAllowed /\ yManifest.present /\ Len(yManifest.entries) > 0

CopiedPlanItem == yKind \in {"file", "authToken"} /\ ~(ySkipAuth /\ yKind = "authToken")

\* C38: after a local -> mirror pass, a plan item that is not a config file
\* and not skipped as an auth token, and whose local source is missing, has
\* no counterpart in the mirror.
C38_LocalDeletionReachesMirror ==
    (ypc \in {"toRepo", "toRepo2"} /\ CopiedPlanItem /\ ~pathExists(yOtherLocal))
        => ~pathExists(yOtherRepo)

\* A pass has removed from the mirror the copy of an auth-token item that
\* is missing locally.
C38_Witness ==
    /\ ypc = "toRepo"
    /\ yKind = "authToken"
    /\ ~ySkipAuth
    /\ ~pathExists(yOtherLocal)
    /\ pathExists(yPrev.otherRepo)
    /\ ~pathExists(yOtherRepo)

\* deepMerge(current mirror content, overrides) for the files before the
\* last pass; overrides ?? {}.
ExpectedLocal ==
    deepMerge(parseJsonc(yPrev.cfgRepo),
              IF yOverrides = Null THEN Obj(EmptyFields) ELSE yOverrides)

\* The local config file parsed to what the mirror's copy and the overrides
\* give.
LocalWasExpected ==
    /\ pathExists(yPrev.cfgLocal)
    /\ pathExists(yPrev.cfgRepo)
    /\ parseJsonc(yPrev.cfgLocal) = ExpectedLocal

\* C39: a local -> mirror pass on a config file whose parsed local content
\* equals deepMerge(mirror content, overrides) leaves the mirror file as it
\* was, text included; the mirror file is written only when the local
\* content differs from that value or the mirror file was absent.
C39_ExpectedConfigNotWritten ==
    ypc \in {"toRepo", "toRepo2"} =>
        /\ LocalWasExpected => yCfgRepo = yPrev.cfgRepo
        /\ (pathExists(yCfgRepo) /\ yCfgRepo # yPrev.cfgRepo)
              => \/ ~pathExists(yPrev.cfgRepo)
                 \/ parseJsonc(yPrev.cfgLocal) # ExpectedLocal

\* A pass has left alone a hand-written mirror file, the local file being
\* that file with non-empty overrides merged in.
C39_Witness ==
    /\ ypc = "toRepo"
    /\ LocalWasExpected
    /\ yOverrides # Null /\ ObjectKeys(yOverrides) # {}
    /\ parseJsonc(yPrev.cfgLocal) # parseJsonc(yPrev.cfgRepo)
    /\ yCfgRepo = yPrev.cfgRepo
    /\ yCfgRepo.text = "user"

\* The mirror's side of a snapshot of the files.
MirrorOf(files) ==
    [cfgRepo |-> files.cfgRepo, otherRepo |-> files.otherRepo,
     manifest |-> files.manifest]

\* C40: a second local -> mirror pass, run on the mirror the first pass
\* left with the same local files, overrides and configuration, leaves the
\* mirror as it found it; a push that follows a successful push therefore
\* finds no change to commit.
C40_SecondPassChangesNothing ==
    ypc = "toRepo2" => MirrorOf(ApplySnapshot) = MirrorOf(yPrev)

\* Two passes have run on an extra path they copied and on a config file
\* that differs from the mirror's copy with the overrides merged in, so
\* that the second pass wrote the mirror's copy again.
C40_Witness ==
    /\ ypc = "toRepo2"
    /\ yKind = "extra"
    /\ yAllowed
    /\ pathExists(yOtherRepo)
    /\ pathExists(yCfgRepo)
    /\ yOverrides # Null /\ ObjectKeys(yOverrides) # {}
    /\ ~LocalWasExpected
    /\ pathExists(yPrev.cfgLocal) /\ pathExists(yPrev.cfgRepo)

====
